---------------------------- MODULE Spec2Model ----------------------------
(***************************************************************************)
(* SSHBot (ssh-bot.py): the session registry and the connection dialogue,  *)
(* the relay loop with its render-and-publish step, and the profile        *)
(* database.                                                               *)
(*                                                                         *)
(* Threads.  Handlers (commands, text messages, button callbacks) run on   *)
(* handler threads; every SSHSession that started owns one loop thread.    *)
(* A handler is a sequence of steps: one step per critical section of      *)
(* STATE_LOCK / DATA_LOCK and one per call to the outside (Telegram, SSH). *)
(* Loop threads interleave with handlers at every step.                    *)
(*                                                                         *)
(* Groups of variables, each with its own specifications:                  *)
(*   Spec, SpecConc        SESSIONS / PENDING / WIZARD, sessions, handlers *)
(*   SpecFair              Spec on shorter runs, with fair loop threads    *)
(*   SpecRender            one session's screen and its published message  *)
(*   SpecRenderFair        SpecRender with a loop thread that keeps going  *)
(*   SpecDbSerial, SpecDb  servers.json and the handlers that use it; the  *)
(*                         serial one with the dialogue that adds profiles *)
(*   SpecDbFail            SpecDbSerial with reads of servers.json that    *)
(*                         raise                                           *)
(*   SpecSend              one SSHSession object: its loop thread, close() *)
(*                         and a call of its send()                        *)
(*   SpecClose             one started session: close() of a handler and   *)
(*                         of the loop thread against render_and_update    *)
(*   SpecAuth              Spec with PRIVATE_ONLY and the allow lists set, *)
(*                         and the checks in front of every handler        *)
(*   SpecFn                functions of the program called on their own    *)
(* Spec and SpecDbSerial dispatch handlers one at a time, the way main()   *)
(* registers them (plain callbacks on one dispatcher); SpecConc and SpecDb *)
(* let handlers overlap, which is what STATE_LOCK and DATA_LOCK are for.   *)
(* The variables edit_failed, ideal, overlap and loads record history for  *)
(* the properties; no action reads them.                                   *)
(***************************************************************************)
EXTENDS Integers, Sequences, FiniteSets, TLC

\* ------------------------------------------------------------------ bounds
\* updates (commands, text messages, button presses) handled in one run
MaxUpdates == 5

\* updates handled in one run when handlers may overlap
MaxConcUpdates == 4

\* updates handled in one run under the fairness conditions
MaxFairUpdates == 4

\* ------------------------------------------------------------ identity keys
\* SessionKey = (chat_id, user_id): one user in a private chat and in a group
Keys == {<<1, 1>>, <<2, 1>>}

\* update.effective_chat.type of the chat of a key
ChatType(k) == IF k[1] = k[2] THEN "private" ELSE "group"

\* handler threads
Workers == {"w1", "w2"}

\* message ids the transport hands out for prompts
MsgIds == {1, 2}

\* ------------------------------------------------------------------- texts
\* a text is a sequence of characters
Digits == {"0", "1", "2", "3", "4", "5", "6", "7", "8", "9"}

DigitVal(c) ==
    CASE c = "0" -> 0 [] c = "1" -> 1 [] c = "2" -> 2 [] c = "3" -> 3
      [] c = "4" -> 4 [] c = "5" -> 5 [] c = "6" -> 6 [] c = "7" -> 7
      [] c = "8" -> 8 [] c = "9" -> 9

RECURSIVE ToInt(_)
ToInt(ds) ==
    IF ds = <<>> THEN 0
    ELSE 10 * ToInt(SubSeq(ds, 1, Len(ds) - 1)) + DigitVal(ds[Len(ds)])

\* the whitespace str.strip() and str.rstrip() remove
Whitespace == {" ", "\n"}

RECURSIVE LStrip(_)
LStrip(t) == IF t # <<>> /\ t[1] \in Whitespace THEN LStrip(Tail(t)) ELSE t

RECURSIVE RStrip(_)
RStrip(t) ==
    IF t # <<>> /\ t[Len(t)] \in Whitespace
    THEN RStrip(SubSeq(t, 1, Len(t) - 1))
    ELSE t

\* str.strip()
Strip(t) == RStrip(LStrip(t))

\* index of the first occurrence of c in t, 0 when absent
FirstIndex(t, c) ==
    IF \E i \in 1..Len(t) : t[i] = c
    THEN CHOOSE i \in 1..Len(t) : t[i] = c /\ \A j \in 1..(i - 1) : t[j] # c
    ELSE 0

\* SSH_RE = ([^@]+)@([^:]+)(?::(\d+))?$ matched from the start of the text:
\* the user is what precedes the first "@", the host what follows up to the
\* first ":", and a ":" must be followed by digits only, to the end.
\* The result is the empty set (None) or a singleton {[user, host, port]}.
parse_target(text) ==
    LET t    == Strip(text)
        at   == FirstIndex(t, "@")
        rest == SubSeq(t, at + 1, Len(t))
        col  == FirstIndex(rest, ":")
        host == IF col = 0 THEN rest ELSE SubSeq(rest, 1, col - 1)
        ds   == IF col = 0 THEN <<>> ELSE SubSeq(rest, col + 1, Len(rest))
    IN  IF /\ at > 1
           /\ host # <<>>
           /\ col # 0 => (ds # <<>> /\ \A i \in 1..Len(ds) : ds[i] \in Digits)
        THEN {[user |-> SubSeq(t, 1, at - 1), host |-> host,
               port |-> IF col = 0 THEN 22 ELSE ToInt(ds)]}
        ELSE {}

\* the texts a user sends: a padded target, a target with a port, no target
Texts ==
    { <<" ", "u", "@", "h">>,
      <<"u", "@", "h", ":", "2">>,
      <<"u", "h">> }

\* the target a text parses to, when it parses
Target(text) == CHOOSE t \in parse_target(text) : TRUE

\* command arguments are split on whitespace
Args == {t \in Texts : \A i \in 1..Len(t) : t[i] # " "}

\* the longest profile name validate_server_name accepts (32 in the source)
MaxNameLen == 2

\* validate_server_name: the error, "" for None
validate_server_name(name) ==
    LET n == Strip(name)
    IN  IF n = <<>> THEN "empty"
        ELSE IF Len(n) > MaxNameLen THEN "too_long"
        ELSE IF \E i \in 1..Len(n) : n[i] \in {":", "|", "\n", "\r"}
             THEN "invalid_characters"
        ELSE ""

\* a text as the string that keys a dict
RECURSIVE Str(_)
Str(t) == IF t = <<>> THEN "" ELSE Head(t) \o Str(Tail(t))

\* the texts a user sends for a profile name: nothing but blanks, a name,
\* a padded name, a name with a colon, a long name
NameTexts ==
    { <<" ">>, <<"a">>, <<" ", "b">>, <<"a", ":">>, <<"a", "b", "a">> }


\* ------------------------------------------------------------------- state
VARIABLES
    \* the session registry and the connect dialogue
    SESSIONS,         \* dict SessionKey -> index into sess
    PENDING,          \* dict SessionKey -> PendingConn
    WIZARD,           \* dict SessionKey -> WizardState
    sess,             \* the SSHSession objects constructed so far
    h,                \* handler threads: the running handler and its locals
    updates,          \* updates dispatched so far
    \* one session's terminal and its published message
    screen,           \* self.screen.display: TERM_LINES lines of TERM_COLS
    last_render,      \* self.last_render
    last_sent,        \* self.last_sent
    message,          \* the text of the session's message in the chat
    rpc,              \* where the loop thread is
    safe,             \* render_and_update's local: the clamped text
    feeds,            \* chunks received from the channel so far
    edit_failed,      \* an edit failed and the screen is as it was then
    \* servers.json and the handlers that change it
    file,             \* SERVER_DB on disk
    tmp,              \* SERVER_DB + ".tmp" on disk
    DATA_LOCK,        \* the thread holding DATA_LOCK, "" when free
    dbh,              \* handler threads on the database and their locals
    ideal,            \* the mutations committed so far, applied in order
    overlap,          \* which handlers have run at the same time
    loads,            \* what the calls of load_server_db met on disk
    dbops,            \* database handlers started so far
    \* a function of the program called on its own
    call,             \* the function called last, its arguments and result
    cfg,              \* PRIVATE_ONLY, ALLOWED_USERS, ALLOWED_CHATS as read
    \* one SSHSession object and a handler calling its send()
    ssn,              \* the object: chan, stop, last_activity, loop, close()
    now,              \* now_ts()
    snd,              \* the handler thread inside send(): pc, what it tested
    wire,             \* texts chan.send has written to the transport
    sends             \* calls of send() so far

sessVars == <<SESSIONS, PENDING, WIZARD, sess, h, updates>>

renderVars ==
    <<screen, last_render, last_sent, message, rpc, safe, feeds, edit_failed>>

dbVars == <<file, tmp, DATA_LOCK, dbh, ideal, overlap, loads, dbops>>

fnVars == <<call, cfg>>

sendVars == <<ssn, now, snd, wire, sends>>

vars == <<sessVars, renderVars, dbVars, fnVars, sendVars>>

\* ------------------------------------------------------------------- dicts
EmptyDict == [x \in {} |-> 0]

\* d.pop(k, None)
Pop(d, k) == [x \in DOMAIN d \ {k} |-> d[x]]

\* d[k] = v
Put(d, k, v) == [x \in DOMAIN d \cup {k} |-> IF x = k THEN v ELSE d[x]]

\* PendingConn(user, host, port, server_name)
PendingConn(t, name) ==
    [user |-> t.user, host |-> t.host, port |-> t.port, server_name |-> name]

\* WizardState(step, prompt_msg_id) with data = {}
WizardState(step, id) == [step |-> step, prompt_msg_id |-> id, data |-> EmptyDict]

\* SSHSession.__init__: nothing connected, stop flag clear, no thread
SSHSession(k) ==
    [key |-> k, stop |-> FALSE, loop |-> "none", conn |-> "none", why |-> "none"]

\* is_authorized(update), of an update of identity key k = (chat, user)
is_authorized(k) ==
    /\ ~(cfg.PRIVATE_ONLY /\ ChatType(k) # "private")
    /\ cfg.ALLOWED_USERS # {} => k[2] \in cfg.ALLOWED_USERS
    /\ cfg.ALLOWED_CHATS # {} => k[1] \in cfg.ALLOWED_CHATS

\* a handler thread with no handler running; auth is what is_authorized
\* says of the update being handled
Idle ==
    [op |-> "idle", pc |-> "idle", key |-> <<0, 0>>, text |-> <<>>,
     reply_to |-> 0, p |-> {}, s |-> 0, old |-> 0, ok |-> FALSE,
     tried |-> FALSE, del |-> FALSE, fwd |-> 0, reply |-> "none",
     auth |-> TRUE]

\* the handler is about to return: what it replied, its inputs dropped
Done(r, reply) == [r EXCEPT !.reply = reply, !.text = <<>>, !.p = {}, !.pc = "done"]

\* the dispatcher hands an update to a free handler thread
Dispatch(w, op, pc, k, text, rt) ==
    /\ h[w].pc = "idle"
    /\ updates < MaxUpdates
    /\ updates' = updates + 1
    /\ h' = [h EXCEPT ![w] = [Idle EXCEPT !.op = op, !.pc = pc, !.key = k,
                                          !.text = text, !.reply_to = rt,
                                          !.auth = is_authorized(k)]]
    /\ UNCHANGED <<SESSIONS, PENDING, WIZARD, sess, renderVars, dbVars, fnVars, sendVars>>

\* ------------------------------------------------------- session helpers
\* SSHSession.close: set the stop flag, close channel and client, mark the
\* published message
close(i) ==
    sess' = [sess EXCEPT ![i].stop = TRUE,
                         ![i].conn = IF @ = "open" THEN "closed" ELSE @]

\* clear_wizard dropping the dialogue only
clear_wizard_keep(k) ==
    /\ WIZARD' = Pop(WIZARD, k)
    /\ PENDING' = PENDING

\* clear_wizard: both maps under one acquisition of STATE_LOCK
clear_wizard(k) ==
    /\ WIZARD' = Pop(WIZARD, k)
    /\ PENDING' = Pop(PENDING, k)

\* where a handler goes on after stop_session returned
AfterStop(op) ==
    CASE op \in {"text", "pass"} -> "reg"
      [] op = "mstop" -> "mstop_clear"
      [] op = "ssh" -> "ssh_parse"
      [] OTHER -> "done"

\* stop_session that pops the session and forgets to close it
StopPop_noclose(w) ==
    /\ h[w].pc = "stop_pop"
    /\ SESSIONS' = Pop(SESSIONS, h[w].key)
    /\ h' = [h EXCEPT ![w].pc = AfterStop(h[w].op)]
    /\ UNCHANGED <<PENDING, WIZARD, sess, updates, renderVars, dbVars, fnVars, sendVars>>

\* stop_session, first half: pop the registered session under STATE_LOCK
StopPop(w) ==
    /\ h[w].pc = "stop_pop"
    /\ LET k == h[w].key
           s == IF k \in DOMAIN SESSIONS THEN SESSIONS[k] ELSE 0
       IN  /\ SESSIONS' = Pop(SESSIONS, k)
           /\ h' = [h EXCEPT ![w].old = s,
                             ![w].pc = IF s # 0 THEN "stop_close"
                                       ELSE AfterStop(h[w].op),
                             ![w].reply = IF h[w].op = "stop" /\ s = 0
                                          THEN "no_session" ELSE @]
    /\ UNCHANGED <<PENDING, WIZARD, sess, updates, renderVars, dbVars, fnVars, sendVars>>

\* stop_session, second half: close the popped session outside the lock
StopClose(w) ==
    /\ h[w].pc = "stop_close"
    /\ close(h[w].old)
    /\ h' = [h EXCEPT ![w].pc = AfterStop(h[w].op),
                      ![w].reply = IF h[w].op = "stop" THEN "stopped" ELSE @]
    /\ UNCHANGED <<SESSIONS, PENDING, WIZARD, updates, renderVars, dbVars, fnVars, sendVars>>

\* ------------------------------------------------- wizard_process_text
\* text_msg: a text message that is not a command
text_msg(w, k, text, rt) == Dispatch(w, "text", "wiz_get", k, text, rt)

\* the reply-to rule applied in every chat, the private one included
WizGet_anychat(w) ==
    /\ h[w].pc = "wiz_get"
    /\ LET k == h[w].key
       IN  h' = [h EXCEPT ![w].reply_to = 0, ![w].pc =
                 IF k \notin DOMAIN WIZARD THEN "fwd_get"
                 ELSE IF h[w].reply_to # WIZARD[k].prompt_msg_id THEN "fwd_get"
                 ELSE CASE WIZARD[k].step = "AWAIT_TARGET" -> "tgt"
                        [] WIZARD[k].step = "AWAIT_PASSWORD" -> "pw_delete"
                        [] WIZARD[k].step = "ADD_SERVER_NAME" -> "add_name"
                        [] WIZARD[k].step = "ADD_SERVER_TARGET" -> "add_target"
                        [] OTHER -> "wiz_unknown"]
    /\ UNCHANGED <<SESSIONS, PENDING, WIZARD, sess, updates, renderVars, dbVars, fnVars, sendVars>>

\* wizard_process_text up to the dispatch on st.step: no dialogue, or in a
\* group a message that does not reply to the prompt, is not consumed
WizGet(w) ==
    /\ h[w].pc = "wiz_get"
    /\ LET k == h[w].key
       IN  h' = [h EXCEPT ![w].reply_to = 0, ![w].pc =
                 IF k \notin DOMAIN WIZARD THEN "fwd_get"
                 ELSE IF /\ ChatType(k) # "private"
                         /\ h[w].reply_to # WIZARD[k].prompt_msg_id THEN "fwd_get"
                 ELSE CASE WIZARD[k].step = "AWAIT_TARGET" -> "tgt"
                        [] WIZARD[k].step = "AWAIT_PASSWORD" -> "pw_delete"
                        [] WIZARD[k].step = "ADD_SERVER_NAME" -> "add_name"
                        [] WIZARD[k].step = "ADD_SERVER_TARGET" -> "add_target"
                        [] OTHER -> "wiz_unknown"]
    /\ UNCHANGED <<SESSIONS, PENDING, WIZARD, sess, updates, renderVars, dbVars, fnVars, sendVars>>

\* the target step deleting the message before it looks at the text
WizTarget_delete(w) ==
    /\ h[w].pc = "tgt"
    /\ h' = IF parse_target(h[w].text) = {}
            THEN [h EXCEPT ![w] = Done([@ EXCEPT !.del = TRUE], "format_error")]
            ELSE [h EXCEPT ![w].del = TRUE, ![w].pc = "tgt_setp"]
    /\ UNCHANGED <<SESSIONS, PENDING, WIZARD, sess, updates, renderVars, dbVars, fnVars, sendVars>>

\* step AWAIT_TARGET: a text that does not parse is answered and kept; one
\* that parses is deleted from the chat
WizTarget(w) ==
    /\ h[w].pc = "tgt"
    /\ h' = IF parse_target(h[w].text) = {}
            THEN [h EXCEPT ![w] = Done(@, "format_error")]
            ELSE [h EXCEPT ![w].del = TRUE, ![w].pc = "tgt_setp"]
    /\ UNCHANGED <<SESSIONS, PENDING, WIZARD, sess, updates, renderVars, dbVars, fnVars, sendVars>>

\* the target step storing the default port whatever the text says
WizSetPending_port22(w) ==
    /\ h[w].pc = "tgt_setp"
    /\ LET t == CHOOSE t \in parse_target(h[w].text) : TRUE
       IN  PENDING' = Put(PENDING, h[w].key,
                          PendingConn([t EXCEPT !.port = 22], <<>>))
    /\ h' = [h EXCEPT ![w].pc = "askpw_getp"]
    /\ UNCHANGED <<SESSIONS, WIZARD, sess, updates, renderVars, dbVars, fnVars, sendVars>>

\* set_pending(key, PendingConn(user, host, port))
WizSetPending(w) ==
    /\ h[w].pc = "tgt_setp"
    /\ LET t == CHOOSE t \in parse_target(h[w].text) : TRUE
       IN  PENDING' = Put(PENDING, h[w].key, PendingConn(t, <<>>))
    /\ h' = [h EXCEPT ![w].pc = "askpw_getp"]
    /\ UNCHANGED <<SESSIONS, WIZARD, sess, updates, renderVars, dbVars, fnVars, sendVars>>

\* wizard_ask_password: p = get_pending(key); without one, return
AskPwGet(w) ==
    /\ h[w].pc = "askpw_getp"
    /\ LET k == h[w].key
       IN  h' = IF k \in DOMAIN PENDING
                THEN [h EXCEPT ![w].p = {PENDING[k]}, ![w].pc = "askpw_set"]
                ELSE [h EXCEPT ![w] = Done(@, "none")]
    /\ UNCHANGED <<SESSIONS, PENDING, WIZARD, sess, updates, renderVars, dbVars, fnVars, sendVars>>

\* wizard_ask_password: send the prompt, then move the dialogue (the stored
\* one, or a fresh one) to AWAIT_PASSWORD with the target in its data
AskPwSet(w) ==
    /\ h[w].pc = "askpw_set"
    /\ \E id \in MsgIds :
         LET k  == h[w].key
             p  == CHOOSE p \in h[w].p : TRUE
             st == IF k \in DOMAIN WIZARD THEN WIZARD[k]
                   ELSE WizardState("AWAIT_PASSWORD", 0)
             d  == Put(Put(Put(Put(st.data, "user", p.user), "host", p.host),
                           "port", p.port), "server_name", p.server_name)
         IN  WIZARD' = Put(WIZARD, k, [step |-> "AWAIT_PASSWORD",
                                       prompt_msg_id |-> id, data |-> d])
    /\ h' = [h EXCEPT ![w] = Done(@, "ask_password")]
    /\ UNCHANGED <<SESSIONS, PENDING, sess, updates, renderVars, dbVars, fnVars, sendVars>>

\* the password step without _try_delete()
WizPwDelete_skip(w) ==
    /\ h[w].pc = "pw_delete"
    /\ h' = [h EXCEPT ![w].pc = "pw_getp"]
    /\ UNCHANGED <<SESSIONS, PENDING, WIZARD, sess, updates, renderVars, dbVars, fnVars, sendVars>>

\* step AWAIT_PASSWORD: _try_delete() on the message that holds the password
WizPwDelete(w) ==
    /\ h[w].pc = "pw_delete"
    /\ h' = [h EXCEPT ![w].del = TRUE, ![w].pc = "pw_getp"]
    /\ UNCHANGED <<SESSIONS, PENDING, WIZARD, sess, updates, renderVars, dbVars, fnVars, sendVars>>

\* p = get_pending(key)
WizPwGetPending(w) ==
    /\ h[w].pc = "pw_getp"
    /\ LET k == h[w].key
       IN  h' = IF k \in DOMAIN PENDING
                THEN [h EXCEPT ![w].p = {PENDING[k]}, ![w].pc = "stop_pop"]
                ELSE [h EXCEPT ![w].pc = "pw_nop"]
    /\ UNCHANGED <<SESSIONS, PENDING, WIZARD, sess, updates, renderVars, dbVars, fnVars, sendVars>>

\* no PendingConn: clear the dialogue and report
WizPwNoPending(w) ==
    /\ h[w].pc = "pw_nop"
    /\ clear_wizard(h[w].key)
    /\ h' = [h EXCEPT ![w] = Done(@, "no_pending")]
    /\ UNCHANGED <<SESSIONS, sess, updates, renderVars, dbVars, fnVars, sendVars>>

\* sess = SSHSession(key, bot); SESSIONS[key] = sess
Register(w) ==
    /\ h[w].pc = "reg"
    /\ sess' = Append(sess, SSHSession(h[w].key))
    /\ SESSIONS' = Put(SESSIONS, h[w].key, Len(sess) + 1)
    /\ h' = [h EXCEPT ![w].s = Len(sess) + 1, ![w].pc = "start"]
    /\ UNCHANGED <<PENDING, WIZARD, updates, renderVars, dbVars, fnVars, sendVars>>

\* what SSHSession.start leaves behind, by the call that raised (or none)
Started(s, outcome) ==
    CASE outcome = "ok" ->
           [s EXCEPT !.conn = "open", !.loop = "running"]
      [] outcome = "fail_msg" -> [s EXCEPT !.conn = "open"]
      [] outcome = "fail_shell" -> [s EXCEPT !.conn = "open"]
      [] outcome = "fail_connect" -> s

StartOutcomes == {"ok", "fail_connect", "fail_shell", "fail_msg"}

\* ok, err = sess.start(p.user, p.host, p.port, pwd): connect, open the
\* shell, send the placeholder message, start the loop thread
Start(w) ==
    /\ h[w].pc = "start"
    /\ \E outcome \in StartOutcomes :
         /\ sess' = [sess EXCEPT ![h[w].s] = Started(@, outcome)]
         /\ h' = [h EXCEPT ![w].ok = (outcome = "ok"), ![w].tried = TRUE,
                           ![w].pc = IF h[w].op = "text" THEN "pw_clear"
                                     ELSE "pass_popp"]
    /\ UNCHANGED <<SESSIONS, PENDING, WIZARD, updates, renderVars, dbVars, fnVars, sendVars>>

\* the password step leaving the dialogue open after start returned
WizPwClear_skip(w) ==
    /\ h[w].pc = "pw_clear"
    /\ h' = [h EXCEPT ![w].pc = "fin"]
    /\ UNCHANGED <<SESSIONS, PENDING, WIZARD, sess, updates, renderVars, dbVars, fnVars, sendVars>>

\* clear_wizard(key) after start returned
WizPwClear(w) ==
    /\ h[w].pc = "pw_clear"
    /\ clear_wizard(h[w].key)
    /\ h' = [h EXCEPT ![w].pc = "fin"]
    /\ UNCHANGED <<SESSIONS, sess, updates, renderVars, dbVars, fnVars, sendVars>>

\* if not ok: SESSIONS.pop(key, None); report the outcome
Finish(w) ==
    /\ h[w].pc = "fin"
    /\ SESSIONS' = IF h[w].ok THEN SESSIONS ELSE Pop(SESSIONS, h[w].key)
    /\ h' = [h EXCEPT ![w] = Done(@, IF h[w].ok THEN "connected"
                                     ELSE "connect_failed")]
    /\ UNCHANGED <<PENDING, WIZARD, sess, updates, renderVars, dbVars, fnVars, sendVars>>

\* text_msg after the wizard declined: s = get_session(key)
FwdGet(w) ==
    /\ h[w].pc = "fwd_get"
    /\ LET k == h[w].key
       IN  h' = IF k \in DOMAIN SESSIONS
                THEN [h EXCEPT ![w].old = SESSIONS[k], ![w].pc = "fwd_send"]
                ELSE [h EXCEPT ![w] = Done(@, "ignored")]
    /\ UNCHANGED <<SESSIONS, PENDING, WIZARD, sess, updates, renderVars, dbVars, fnVars, sendVars>>

\* SSHSession.send: write to the channel if there is one and stop is unset
send(s) == s.conn = "open" /\ ~s.stop

\* delete the user's message, then s.send(text + "\n")
FwdSend(w) ==
    /\ h[w].pc = "fwd_send"
    /\ h' = [h EXCEPT ![w] =
              Done([@ EXCEPT !.del = TRUE,
                             !.fwd = IF send(sess[h[w].old]) THEN h[w].old ELSE 0],
                   "forwarded")]
    /\ UNCHANGED <<SESSIONS, PENDING, WIZARD, sess, updates, renderVars, dbVars, fnVars, sendVars>>

\* the handler returns
Return(w) ==
    /\ h[w].pc = "done"
    /\ h' = [h EXCEPT ![w] = Idle]
    /\ UNCHANGED <<SESSIONS, PENDING, WIZARD, sess, updates, renderVars, dbVars, fnVars, sendVars>>

\* ---------------------------------------------------- command handlers
\* /pass <password>; args is empty for a bare /pass
pass_cmd(w, k, args) == Dispatch(w, "pass", "pass_get", k, args, 0)

\* p = get_pending(key); no pending request or no argument: reply and return
PassGet(w) ==
    /\ h[w].pc = "pass_get"
    /\ LET k == h[w].key
       IN  h' = IF k \notin DOMAIN PENDING
                THEN [h EXCEPT ![w] = Done(@, "no_pending")]
                ELSE IF h[w].text = <<>>
                THEN [h EXCEPT ![w] = Done(@, "usage")]
                ELSE [h EXCEPT ![w].p = {PENDING[k]}, ![w].pc = "pass_delete"]
    /\ UNCHANGED <<SESSIONS, PENDING, WIZARD, sess, updates, renderVars, dbVars, fnVars, sendVars>>

\* delete the message that contained the password
PassDelete(w) ==
    /\ h[w].pc = "pass_delete"
    /\ h' = [h EXCEPT ![w].del = TRUE, ![w].pc = "stop_pop"]
    /\ UNCHANGED <<SESSIONS, PENDING, WIZARD, sess, updates, renderVars, dbVars, fnVars, sendVars>>

\* /pass that keeps the PendingConn when the connection failed
PassPopPending_onfail(w) ==
    /\ h[w].pc = "pass_popp"
    /\ PENDING' = IF h[w].ok THEN Pop(PENDING, h[w].key) ELSE PENDING
    /\ h' = [h EXCEPT ![w].pc = "fin"]
    /\ UNCHANGED <<SESSIONS, WIZARD, sess, updates, renderVars, dbVars, fnVars, sendVars>>

\* PENDING.pop(key, None) after start returned
PassPopPending(w) ==
    /\ h[w].pc = "pass_popp"
    /\ PENDING' = Pop(PENDING, h[w].key)
    /\ h' = [h EXCEPT ![w].pc = "fin"]
    /\ UNCHANGED <<SESSIONS, WIZARD, sess, updates, renderVars, dbVars, fnVars, sendVars>>

\* /stop, /ssh without an argument, the A:STOP button: stop_session(key)
stop_cmd(w, k) == Dispatch(w, "stop", "stop_pop", k, <<>>, 0)

\* the M:STOP button: stop_session(key), then clear_wizard(key)
cb_stop(w, k) == Dispatch(w, "mstop", "stop_pop", k, <<>>, 0)

MStopClear(w) ==
    /\ h[w].pc = "mstop_clear"
    /\ clear_wizard(h[w].key)
    /\ h' = [h EXCEPT ![w] = Done(@, "none")]
    /\ UNCHANGED <<SESSIONS, sess, updates, renderVars, dbVars, fnVars, sendVars>>

\* /ssh user@host[:port]: stop_session(key) first, then parse the argument
ssh_cmd(w, k, arg) == Dispatch(w, "ssh", "stop_pop", k, arg, 0)

\* target = parse_target(ctx.args[0]); set_pending on success
SshParse(w) ==
    /\ h[w].pc = "ssh_parse"
    /\ LET ts == parse_target(h[w].text)
       IN  IF ts = {}
           THEN /\ h' = [h EXCEPT ![w] = Done(@, "usage")]
                /\ UNCHANGED PENDING
           ELSE /\ PENDING' = Put(PENDING, h[w].key,
                                  PendingConn(CHOOSE t \in ts : TRUE, <<>>))
                /\ h' = [h EXCEPT ![w] = Done(@, "send_pass")]
    /\ UNCHANGED <<SESSIONS, WIZARD, sess, updates, renderVars, dbVars, fnVars, sendVars>>

\* the W:CANCEL button: clear_wizard(key)
cb_cancel(w, k) == Dispatch(w, "cancel", "cancel", k, <<>>, 0)

Cancel(w) ==
    /\ h[w].pc = "cancel"
    /\ clear_wizard(h[w].key)
    /\ h' = [h EXCEPT ![w] = Done(@, "cancelled")]
    /\ UNCHANGED <<SESSIONS, sess, updates, renderVars, dbVars, fnVars, sendVars>>

\* the M:CONNECT button: wizard_ask_target
cb_connect(w, k) == Dispatch(w, "connect", "ask_target", k, <<>>, 0)

\* send the prompt; set_wizard(key, WizardState("AWAIT_TARGET", prompt id))
wizard_ask_target(w) ==
    /\ h[w].pc = "ask_target"
    /\ \E id \in MsgIds :
         WIZARD' = Put(WIZARD, h[w].key, WizardState("AWAIT_TARGET", id))
    /\ h' = [h EXCEPT ![w] = Done(@, "ask_target")]
    /\ UNCHANGED <<SESSIONS, PENDING, sess, updates, renderVars, dbVars, fnVars, sendVars>>

\* ------------------------------------------------------ SSHSession.loop
\* break: idle timeout, empty read (end of stream), or an exception raised
\* in the iteration
LoopBreak(i) ==
    /\ sess[i].loop = "running"
    /\ sess' = [sess EXCEPT ![i].loop = "closing", ![i].why = "break"]
    /\ UNCHANGED <<SESSIONS, PENDING, WIZARD, h, updates, renderVars, dbVars, fnVars, sendVars>>

\* a loop that never reads the stop flag
LoopSeeStop_blind(i) ==
    /\ sess[i].loop = "running"
    /\ FALSE
    /\ UNCHANGED vars

\* while not self.stop.is_set(): the loop sees the flag and ends
LoopSeeStop(i) ==
    /\ sess[i].loop = "running"
    /\ sess[i].stop
    /\ sess' = [sess EXCEPT ![i].loop = "closing",
                            ![i].why = IF @ = "none" THEN "stop" ELSE @]
    /\ UNCHANGED <<SESSIONS, PENDING, WIZARD, h, updates, renderVars, dbVars, fnVars, sendVars>>

\* after the while loop: self.close(); the thread ends
LoopClose(i) ==
    /\ sess[i].loop = "closing"
    /\ sess' = [sess EXCEPT ![i].stop = TRUE,
                            ![i].conn = IF @ = "open" THEN "closed" ELSE @,
                            ![i].loop = "done"]
    /\ UNCHANGED <<SESSIONS, PENDING, WIZARD, h, updates, renderVars, dbVars, fnVars, sendVars>>

\* ------------------------------------------------- the screen and clamp_tg
\* the terminal is TERM_COLS x TERM_LINES; a published text holds at most
\* MAX_TG_CHARS characters; the channel delivers at most MaxFeeds chunks
TERM_COLS == 2

TERM_LINES == 2

MAX_TG_CHARS == 3

MaxFeeds == 3

\* n blanks
Blank(n) == [i \in 1..n |-> " "]

\* a line of screen.display: pyte pads every line to TERM_COLS
ScreenLines == {Blank(TERM_COLS), <<"a">> \o Blank(TERM_COLS - 1)}

\* pyte.Screen(TERM_COLS, TERM_LINES).display
Displays == [1..TERM_LINES -> ScreenLines]

\* "\n".join(lines)
RECURSIVE Join(_)
Join(lines) ==
    IF lines = <<>> THEN <<>>
    ELSE IF Len(lines) = 1 THEN lines[1]
    ELSE lines[1] \o <<"\n">> \o Join(Tail(lines))

\* text.splitlines(): the pieces between line breaks; a final line break
\* opens no further line
RECURSIVE SplitLines(_)
SplitLines(t) ==
    IF t = <<>> THEN <<>>
    ELSE LET nl == FirstIndex(t, "\n")
         IN  IF nl = 0 THEN <<t>>
             ELSE <<SubSeq(t, 1, nl - 1)>> \o SplitLines(SubSeq(t, nl + 1, Len(t)))

\* a clamp loop that keeps the line that took the text over the budget
RECURSIVE ClampLoop_keep(_, _)
ClampLoop_keep(lines, out) ==
    IF lines = <<>> THEN out
    ELSE LET more == <<lines[Len(lines)]>> \o out
         IN  IF Len(Join(more)) > MAX_TG_CHARS THEN more
             ELSE ClampLoop_keep(SubSeq(lines, 1, Len(lines) - 1), more)

\* the loop of clamp_tg: lines are put in front of out from the last one
\* backwards; the first line that takes the joined text over MAX_TG_CHARS
\* is taken out again and the loop ends
RECURSIVE ClampLoop(_, _)
ClampLoop(lines, out) ==
    IF lines = <<>> THEN out
    ELSE LET more == <<lines[Len(lines)]>> \o out
         IN  IF Len(Join(more)) > MAX_TG_CHARS THEN out
             ELSE ClampLoop(SubSeq(lines, 1, Len(lines) - 1), more)

clamp_tg(text) == Join(ClampLoop(SplitLines(text), <<>>))

\* text = "\n".join(self.screen.display).rstrip()
ScreenText(display) == RStrip(Join(display))

\* the text start() publishes with the message it creates
Connecting == <<"Connecting...">>

\* --------------------------------------- SSHSession.loop, render_and_update
\* chan.recv_ready(): a chunk is fed to the stream and the screen shows
\* what the terminal emulation makes of it
Feed(display) ==
    /\ rpc = "loop"
    /\ feeds < MaxFeeds
    /\ feeds' = feeds + 1
    /\ screen' = display
    /\ edit_failed' = (edit_failed /\ display = screen)
    /\ UNCHANGED <<last_render, last_sent, message, rpc, safe>>
    /\ UNCHANGED <<sessVars, dbVars, fnVars, sendVars>>

\* now - last_update >= UPDATE_INTERVAL: the loop calls render_and_update
Tick ==
    /\ rpc = "loop"
    /\ rpc' = "render"
    /\ UNCHANGED <<screen, last_render, last_sent, message, safe, feeds,
                   edit_failed>>
    /\ UNCHANGED <<sessVars, dbVars, fnVars, sendVars>>

\* text == self.last_render: return
RenderUnchanged ==
    /\ rpc = "render"
    /\ ScreenText(screen) = last_render
    /\ rpc' = "loop"
    /\ UNCHANGED <<screen, last_render, last_sent, message, safe, feeds,
                   edit_failed>>
    /\ UNCHANGED <<sessVars, dbVars, fnVars, sendVars>>

\* self.last_render = text; safe == self.last_sent: return
RenderAlreadySent ==
    /\ rpc = "render"
    /\ ScreenText(screen) # last_render
    /\ clamp_tg(ScreenText(screen)) = last_sent
    /\ last_render' = ScreenText(screen)
    /\ rpc' = "loop"
    /\ UNCHANGED <<screen, last_sent, message, safe, feeds, edit_failed>>
    /\ UNCHANGED <<sessVars, dbVars, fnVars, sendVars>>

\* self.last_render = text; the clamped text is new: on to the edit
RenderEdit ==
    /\ rpc = "render"
    /\ ScreenText(screen) # last_render
    /\ clamp_tg(ScreenText(screen)) # last_sent
    /\ last_render' = ScreenText(screen)
    /\ safe' = clamp_tg(ScreenText(screen))
    /\ rpc' = "edit"
    /\ UNCHANGED <<screen, last_sent, message, feeds, edit_failed>>
    /\ UNCHANGED <<sessVars, dbVars, fnVars, sendVars>>

\* bot.edit_message_text succeeded: self.last_sent = safe
EditOk ==
    /\ rpc = "edit"
    /\ message' = safe
    /\ last_sent' = safe
    /\ edit_failed' = FALSE
    /\ safe' = <<>>
    /\ rpc' = "loop"
    /\ UNCHANGED <<screen, last_render, feeds>>
    /\ UNCHANGED <<sessVars, dbVars, fnVars, sendVars>>

\* an edit that records the text as sent before it knows the edit went through
EditFail_marksent ==
    /\ rpc = "edit"
    /\ edit_failed' = TRUE
    /\ last_sent' = safe
    /\ safe' = <<>>
    /\ rpc' = "loop"
    /\ UNCHANGED <<screen, last_render, message, feeds>>
    /\ UNCHANGED <<sessVars, dbVars, fnVars, sendVars>>

\* bot.edit_message_text raised: logged, nothing else
EditFail ==
    /\ rpc = "edit"
    /\ edit_failed' = TRUE
    /\ safe' = <<>>
    /\ rpc' = "loop"
    /\ UNCHANGED <<screen, last_render, last_sent, message, feeds>>
    /\ UNCHANGED <<sessVars, dbVars, fnVars, sendVars>>

RenderInit ==
    /\ screen = [i \in 1..TERM_LINES |-> Blank(TERM_COLS)]
    /\ last_render = <<>>
    /\ last_sent = <<>>
    /\ message = Connecting
    /\ rpc = "loop"
    /\ safe = <<>>
    /\ feeds = 0
    /\ edit_failed = FALSE

NextRender ==
    \/ \E display \in Displays : Feed(display)
    \/ Tick
    \/ RenderUnchanged
    \/ RenderAlreadySent
    \/ RenderEdit
    \/ EditOk
    \/ EditFail

\* ---------------------------------------------------------- servers.json
\* handlers on the profile database started in one run
MaxDbOps == 3

\* user ids (the owners of profiles), profile names, handler threads
Owners == {1, 2}

Names == {"a", "b"}

DbThreads == {"d1", "d2"}

\* the identity keys of updates that reach the database: every owner in the
\* private chat (whose id is the owner's) and in one group chat
DbKeys == {<<u, u>> : u \in Owners} \cup {<<-1, u>> : u \in Owners}

\* the targets of the profiles handlers save: what the texts that parse,
\* parse to
DbTargets == {Target(x) : x \in {y \in Texts : parse_target(y) # {}}}

\* the targets that overlapping handlers save: the one with no port written
DefaultPort == {tgt \in DbTargets : tgt.port = 22}

\* the target of a handler that saves no profile
NoTarget == [user |-> <<>>, host |-> <<>>, port |-> 0]

\* a file on disk: absent, or holding a document, written out in full or
\* only in part; the document is the "users" dict
NoFile == [exists |-> FALSE, whole |-> TRUE, users |-> EmptyDict]

Written(users) == [exists |-> TRUE, whole |-> TRUE, users |-> users]

Partial == [exists |-> TRUE, whole |-> FALSE, users |-> EmptyDict]

\* load_server_db, under DATA_LOCK: {"users": {}} when the file is absent
\* or json.load raises, else the document
load_server_db == IF file.exists /\ file.whole THEN file.users ELSE EmptyDict

\* db["users"].get(str(user_id), {}) read through its keys "servers" and
\* "default": an absent key reads as empty; "servers" is a dict from the
\* profile name to the profile, of which the connection fields user, host
\* and port are kept here (created_at and last_used are not)
UserRec(users, u) ==
    IF u \in DOMAIN users THEN users[u]
    ELSE [servers |-> EmptyDict, default |-> ""]

\* get_user_default_server
get_user_default_server(u) == UserRec(load_server_db, u).default

\* what a load met on disk
Met ==
    IF ~file.exists THEN "no_file"
    ELSE IF ~file.whole THEN "partial"
    ELSE IF tmp.exists THEN "whole_beside_tmp"
    ELSE "whole"

\* a database handler thread with no handler running
DbIdle ==
    [pc |-> "idle", op |-> "none", chat |-> 0, user |-> 0, name |-> "", val |-> "",
     text |-> <<>>,
     target |-> NoTarget, servers |-> EmptyDict, db |-> EmptyDict,
     ret |-> "idle", mut |-> "none"]

\* the handler goes on at pc, or returns
DbGoto(r, pc) == IF pc = "idle" THEN DbIdle ELSE [r EXCEPT !.pc = pc]

\* a handler starts on thread t for an update with key k = (chat_id,
\* user_id); overlap records whether a handler of the same owner or of
\* another owner is running at that moment
DbDispatch(t, op, k, n, tgt) ==
    /\ dbh[t].pc = "idle"
    /\ dbops < MaxDbOps
    /\ dbops' = dbops + 1
    /\ dbh' = [dbh EXCEPT ![t] = [DbIdle EXCEPT !.pc = "get_servers",
                                  !.op = op, !.chat = k[1],
                                  !.user = k[2], !.name = n,
                                  !.target = tgt]]
    /\ overlap' = overlap \cup
         {IF dbh[x].user = k[2] THEN "same" ELSE "other" :
            x \in {y \in DbThreads : y # t /\ dbh[y].pc # "idle"}}
    /\ UNCHANGED <<file, tmp, DATA_LOCK, ideal, loads>>
    /\ UNCHANGED <<sessVars, renderVars, fnVars, sendVars>>

\* /addserver <name> <target> with a valid name and target
addserver_cmd(t, k, n, tgt) == DbDispatch(t, "add", k, n, tgt)

\* wizard_process_text, step ADD_SERVER_TARGET with a target that parses,
\* from get_user_servers to set_user_servers
wizard_add_target(t, k, n, tgt) == DbDispatch(t, "add", k, n, tgt)

\* /delserver <name>
delserver_cmd(t, k, n) == DbDispatch(t, "del", k, n, NoTarget)

\* button SV:DELETE:<name>
cb_delete(t, k, n) == DbDispatch(t, "del", k, n, NoTarget)

\* button SV:DEFAULT:<name>
cb_default(t, k, n) == DbDispatch(t, "default", k, n, NoTarget)

\* button SV:OPEN:<name>
cb_sv_open(t, k, n) == DbDispatch(t, "open", k, n, NoTarget)

\* button SV:CONNECT:<name>
cb_sv_connect(t, k, n) == DbDispatch(t, "connect", k, n, NoTarget)

\* the handlers that begin with "if name not in servers"
NamedOps == {"open", "connect", "del", "default"}

\* /servers and button M:SERVERS: keyboard_servers_list reads the owner's
\* profiles and default to lay out the buttons
servers_cmd(t, k) == DbDispatch(t, "list", k, "", NoTarget)

\* an add that keeps the profile already stored under the name
get_user_servers_setdefault(t) ==
    /\ dbh[t].pc = "get_servers"
    /\ DATA_LOCK = ""
    /\ loads' = loads \cup {Met}
    /\ LET servers == UserRec(load_server_db, dbh[t].user).servers
           n == dbh[t].name
       IN  dbh' = [dbh EXCEPT ![t] =
             CASE dbh[t].op \in {"add", "wadd"} ->
                    [@ EXCEPT !.servers = IF n \in DOMAIN servers THEN servers
                                          ELSE Put(servers, n, dbh[t].target),
                              !.pc = "set_load"]
               [] dbh[t].op \in NamedOps /\ n \notin DOMAIN servers ->
                    [@ EXCEPT !.pc = "not_found"]
               [] dbh[t].op = "del" ->
                    [@ EXCEPT !.servers = Pop(servers, n), !.pc = "set_load"]
               [] dbh[t].op = "default" ->
                    [@ EXCEPT !.val = n, !.pc = "setdef_load"]
               [] dbh[t].op = "connect" ->
                    [@ EXCEPT !.servers = servers, !.pc = "set_load"]
               [] OTHER -> DbIdle]
    /\ UNCHANGED <<file, tmp, DATA_LOCK, ideal, overlap, dbops>>
    /\ UNCHANGED <<sessVars, renderVars, fnVars, sendVars>>

\* a delete and a connect that go on without looking the name up
get_user_servers_nocheck(t) ==
    /\ dbh[t].pc = "get_servers"
    /\ DATA_LOCK = ""
    /\ loads' = loads \cup {Met}
    /\ LET servers == UserRec(load_server_db, dbh[t].user).servers
           n == dbh[t].name
       IN  dbh' = [dbh EXCEPT ![t] =
             CASE dbh[t].op \in {"add", "wadd"} ->
                    [@ EXCEPT !.servers = Put(servers, n, dbh[t].target),
                              !.pc = "set_load"]
               [] dbh[t].op \in {"open", "default"} /\ n \notin DOMAIN servers ->
                    [@ EXCEPT !.pc = "not_found"]
               [] dbh[t].op = "del" ->
                    [@ EXCEPT !.servers = Pop(servers, n), !.pc = "set_load"]
               [] dbh[t].op = "default" ->
                    [@ EXCEPT !.val = n, !.pc = "setdef_load"]
               [] dbh[t].op = "connect" ->
                    [@ EXCEPT !.servers = Put(servers, n, NoTarget),
                              !.pc = "set_load"]
               [] OTHER -> DbIdle]
    /\ UNCHANGED <<file, tmp, DATA_LOCK, ideal, overlap, dbops>>
    /\ UNCHANGED <<sessVars, renderVars, fnVars, sendVars>>

\* servers = get_user_servers(user_id), then what the handler does with it:
\* add puts the name in; open, connect, delete and set-default go on to
\* answer "not found" when the name is missing; delete pops the name,
\* connect stores the profile back (its last_used stamped), a listing and
\* an open only show what they read
get_user_servers(t) ==
    /\ dbh[t].pc = "get_servers"
    /\ DATA_LOCK = ""
    /\ loads' = loads \cup {Met}
    /\ LET servers == UserRec(load_server_db, dbh[t].user).servers
           n == dbh[t].name
       IN  dbh' = [dbh EXCEPT ![t] =
             CASE dbh[t].op \in {"add", "wadd"} ->
                    [@ EXCEPT !.servers = Put(servers, n, dbh[t].target),
                              !.pc = "set_load"]
               [] dbh[t].op \in NamedOps /\ n \notin DOMAIN servers ->
                    [@ EXCEPT !.pc = "not_found"]
               [] dbh[t].op = "del" ->
                    [@ EXCEPT !.servers = Pop(servers, n), !.pc = "set_load"]
               [] dbh[t].op = "default" ->
                    [@ EXCEPT !.val = n, !.pc = "setdef_load"]
               [] dbh[t].op = "connect" ->
                    [@ EXCEPT !.servers = servers, !.pc = "set_load"]
               [] OTHER -> DbIdle]
    /\ UNCHANGED <<file, tmp, DATA_LOCK, ideal, overlap, dbops>>
    /\ UNCHANGED <<sessVars, renderVars, fnVars, sendVars>>

\* q.answer / reply_text of "not found", then return
AnswerNotFound(t) ==
    /\ dbh[t].pc = "not_found"
    /\ dbh' = [dbh EXCEPT ![t] = DbIdle]
    /\ UNCHANGED <<file, tmp, DATA_LOCK, ideal, overlap, loads, dbops>>
    /\ UNCHANGED <<sessVars, renderVars, fnVars, sendVars>>

\* SV:CONNECT after the profile is stored back: set_pending(key,
\* PendingConn(user, host, port, server_name=name)), then
\* wizard_ask_password sends the prompt and moves the dialogue (the stored
\* one, or a fresh one) to AWAIT_PASSWORD with the target in its data
ConnectPending(t) ==
    /\ dbh[t].pc = "set_pending"
    /\ \E id \in MsgIds :
         LET k  == <<dbh[t].chat, dbh[t].user>>
             p  == PendingConn(dbh[t].servers[dbh[t].name], <<dbh[t].name>>)
             st == IF k \in DOMAIN WIZARD THEN WIZARD[k]
                   ELSE WizardState("AWAIT_PASSWORD", 0)
             d  == Put(Put(Put(Put(st.data, "user", p.user), "host", p.host),
                           "port", p.port), "server_name", p.server_name)
         IN  /\ PENDING' = Put(PENDING, k, p)
             /\ WIZARD' = Put(WIZARD, k, [step |-> "AWAIT_PASSWORD",
                                           prompt_msg_id |-> id, data |-> d])
    /\ dbh' = [dbh EXCEPT ![t] = DbIdle]
    /\ UNCHANGED <<file, tmp, DATA_LOCK, ideal, overlap, loads, dbops>>
    /\ UNCHANGED <<SESSIONS, sess, h, updates>>
    /\ UNCHANGED <<renderVars, fnVars, sendVars>>

\* button M:ADD_SERVER, wizard_start_add_server: send the prompt, then
\* set_wizard(key, WizardState("ADD_SERVER_NAME", prompt.message_id))
wizard_start_add_server(t, k) ==
    /\ dbh[t].pc = "idle"
    /\ dbops < MaxDbOps
    /\ dbops' = dbops + 1
    /\ \E id \in MsgIds :
         WIZARD' = Put(WIZARD, k, WizardState("ADD_SERVER_NAME", id))
    /\ UNCHANGED <<file, tmp, DATA_LOCK, dbh, ideal, overlap, loads>>
    /\ UNCHANGED <<SESSIONS, PENDING, sess, h, updates>>
    /\ UNCHANGED <<renderVars, fnVars, sendVars>>

\* text_msg, wizard_process_text up to the step: a message with the text
\* that the dialogue of its key takes (in a group, a reply to the prompt)
\* while the dialogue is adding a profile; text = msg.text.strip()
text_msg_add(t, k, text, rt) ==
    /\ dbh[t].pc = "idle"
    /\ dbops < MaxDbOps
    /\ k \in DOMAIN WIZARD
    /\ WIZARD[k].step \in {"ADD_SERVER_NAME", "ADD_SERVER_TARGET"}
    /\ ChatType(k) # "private" => rt = WIZARD[k].prompt_msg_id
    /\ dbops' = dbops + 1
    /\ dbh' = [dbh EXCEPT ![t] =
                 [DbIdle EXCEPT !.pc = IF WIZARD[k].step = "ADD_SERVER_NAME"
                                       THEN "add_name" ELSE "add_target",
                                !.op = "wadd", !.chat = k[1], !.user = k[2],
                                !.text = Strip(text)]]
    /\ UNCHANGED <<file, tmp, DATA_LOCK, ideal, overlap, loads>>
    /\ UNCHANGED <<sessVars, renderVars, fnVars, sendVars>>

\* the name step answering every text with the prompt for the target
WizAddName_novalidate(t) ==
    /\ dbh[t].pc = "add_name"
    /\ LET k == <<dbh[t].chat, dbh[t].user>>
           st == WIZARD[k]
       IN  \E id \in MsgIds :
             WIZARD' = Put(WIZARD, k,
                           [step |-> "ADD_SERVER_TARGET", prompt_msg_id |-> id,
                            data |-> Put(st.data, "name", Strip(dbh[t].text))])
    /\ dbh' = [dbh EXCEPT ![t] = DbIdle]
    /\ UNCHANGED <<file, tmp, DATA_LOCK, ideal, overlap, loads, dbops>>
    /\ UNCHANGED <<SESSIONS, PENDING, sess, h, updates>>
    /\ UNCHANGED <<renderVars, fnVars, sendVars>>

\* wizard_process_text, step ADD_SERVER_NAME: a name that does not validate
\* is answered with the error; a valid one is put in the dialogue's data,
\* the dialogue moves to ADD_SERVER_TARGET and the new prompt is recorded
WizAddName(t) ==
    /\ dbh[t].pc = "add_name"
    /\ LET k == <<dbh[t].chat, dbh[t].user>>
           st == WIZARD[k]
       IN  IF validate_server_name(dbh[t].text) # ""
           THEN WIZARD' = WIZARD
           ELSE \E id \in MsgIds :
                  WIZARD' = Put(WIZARD, k,
                                [step |-> "ADD_SERVER_TARGET",
                                 prompt_msg_id |-> id,
                                 data |-> Put(st.data, "name",
                                              Strip(dbh[t].text))])
    /\ dbh' = [dbh EXCEPT ![t] = DbIdle]
    /\ UNCHANGED <<file, tmp, DATA_LOCK, ideal, overlap, loads, dbops>>
    /\ UNCHANGED <<SESSIONS, PENDING, sess, h, updates>>
    /\ UNCHANGED <<renderVars, fnVars, sendVars>>

\* wizard_process_text, step ADD_SERVER_TARGET: a text that does not parse
\* is answered with the format error; with a target the handler goes on to
\* store the profile under name = str(st.data.get("name", "")).strip()
WizAddTarget(t) ==
    /\ dbh[t].pc = "add_target"
    /\ LET k == <<dbh[t].chat, dbh[t].user>>
           d == WIZARD[k].data
           name == IF "name" \in DOMAIN d THEN Strip(d["name"]) ELSE <<>>
       IN  dbh' = [dbh EXCEPT ![t] =
                     IF parse_target(dbh[t].text) = {} THEN DbIdle
                     ELSE [@ EXCEPT !.name = Str(name),
                                    !.target = Target(dbh[t].text),
                                    !.pc = "get_servers"]]
    /\ UNCHANGED <<file, tmp, DATA_LOCK, ideal, overlap, loads, dbops>>
    /\ UNCHANGED <<sessVars, renderVars, fnVars, sendVars>>

\* step ADD_SERVER_TARGET after set_user_servers: clear_wizard(key), then
\* the message that the profile was saved
WizAddClear(t) ==
    /\ dbh[t].pc = "clear_wizard"
    /\ clear_wizard(<<dbh[t].chat, dbh[t].user>>)
    /\ dbh' = [dbh EXCEPT ![t] = DbIdle]
    /\ UNCHANGED <<file, tmp, DATA_LOCK, ideal, overlap, loads, dbops>>
    /\ UNCHANGED <<SESSIONS, sess, h, updates>>
    /\ UNCHANGED <<renderVars, fnVars, sendVars>>

\* set_user_servers up to save_server_db: db = load_server_db();
\* u["servers"] = servers; db["users"][str(user_id)] = u
set_user_servers(t) ==
    /\ dbh[t].pc = "set_load"
    /\ DATA_LOCK = ""
    /\ loads' = loads \cup {Met}
    /\ LET users == load_server_db
           u == dbh[t].user
           rec == [UserRec(users, u) EXCEPT !.servers = dbh[t].servers]
       IN  dbh' = [dbh EXCEPT ![t].db = Put(users, u, rec),
                              ![t].pc = "save",
                              ![t].mut = CASE dbh[t].op \in {"add", "wadd"} -> "add"
                                           [] dbh[t].op = "connect" -> "touch"
                                           [] OTHER -> "remove",
                              ![t].ret = CASE dbh[t].op = "del" -> "del_default"
                                           [] dbh[t].op = "connect" -> "set_pending"
                                           [] dbh[t].op = "wadd" -> "clear_wizard"
                                           [] OTHER -> "idle"]
    /\ UNCHANGED <<file, tmp, DATA_LOCK, ideal, overlap, dbops>>
    /\ UNCHANGED <<sessVars, renderVars, fnVars, sendVars>>

\* delserver_cmd / SV:DELETE after the first write:
\* if get_user_default_server(user_id) == name: set_user_default_server("")
DelDefault(t) ==
    /\ dbh[t].pc = "del_default"
    /\ DATA_LOCK = ""
    /\ loads' = loads \cup {Met}
    /\ dbh' = [dbh EXCEPT ![t] =
                 IF get_user_default_server(dbh[t].user) = dbh[t].name
                 THEN [@ EXCEPT !.val = "", !.pc = "setdef_load"]
                 ELSE DbIdle]
    /\ UNCHANGED <<file, tmp, DATA_LOCK, ideal, overlap, dbops>>
    /\ UNCHANGED <<sessVars, renderVars, fnVars, sendVars>>

\* set_user_default_server up to save_server_db: db = load_server_db();
\* u["default"] = name; u["servers"] made a dict when missing
set_user_default_server(t) ==
    /\ dbh[t].pc = "setdef_load"
    /\ DATA_LOCK = ""
    /\ loads' = loads \cup {Met}
    /\ LET users == load_server_db
           u == dbh[t].user
           rec == [UserRec(users, u) EXCEPT !.default = dbh[t].val]
       IN  dbh' = [dbh EXCEPT ![t].db = Put(users, u, rec),
                              ![t].pc = "save",
                              ![t].mut = "default",
                              ![t].ret = "idle"]
    /\ UNCHANGED <<file, tmp, DATA_LOCK, ideal, overlap, dbops>>
    /\ UNCHANGED <<sessVars, renderVars, fnVars, sendVars>>

\* a save that writes the document straight into SERVER_DB
SaveWrite_inplace(t) ==
    /\ dbh[t].pc = "save"
    /\ DATA_LOCK = ""
    /\ \/ file' = Written(dbh[t].db)
       \/ file' = Partial
    /\ dbh' = [dbh EXCEPT ![t] = DbGoto(@, dbh[t].ret)]
    /\ UNCHANGED <<tmp, DATA_LOCK, ideal, overlap, loads, dbops>>
    /\ UNCHANGED <<sessVars, renderVars, fnVars, sendVars>>

\* save_server_db, the write: under DATA_LOCK the document goes to the
\* temporary file; when open or json.dump raises the temporary file is left
\* as far as it got, the exception is logged and the lock released
SaveWrite(t) ==
    /\ dbh[t].pc = "save"
    /\ DATA_LOCK = ""
    /\ \/ /\ tmp' = Written(dbh[t].db)
          /\ DATA_LOCK' = t
          /\ dbh' = [dbh EXCEPT ![t].pc = "replace"]
       \/ /\ tmp' = Partial
          /\ DATA_LOCK' = ""
          /\ dbh' = [dbh EXCEPT ![t] = DbGoto(@, dbh[t].ret)]
    /\ UNCHANGED <<file, ideal, overlap, loads, dbops>>
    /\ UNCHANGED <<sessVars, renderVars, fnVars, sendVars>>

\* the mutation a handler commits, applied to a document
ApplyMut(users, r) ==
    LET rec == UserRec(users, r.user)
    IN  Put(users, r.user,
            CASE r.mut = "add" ->
                   [rec EXCEPT !.servers = Put(@, r.name, r.target)]
              [] r.mut = "remove" ->
                   [rec EXCEPT !.servers = Pop(@, r.name)]
              [] r.mut = "touch" -> rec
              [] OTHER -> [rec EXCEPT !.default = r.val])

\* save_server_db, os.replace(tmp, SERVER_DB): the temporary file becomes
\* the database in one step; the lock is released
SaveReplace(t) ==
    /\ dbh[t].pc = "replace"
    /\ DATA_LOCK = t
    /\ file' = tmp
    /\ tmp' = NoFile
    /\ DATA_LOCK' = ""
    /\ ideal' = ApplyMut(ideal, dbh[t])
    /\ dbh' = [dbh EXCEPT ![t] = DbGoto(@, dbh[t].ret)]
    /\ UNCHANGED <<overlap, loads, dbops>>
    /\ UNCHANGED <<sessVars, renderVars, fnVars, sendVars>>

DbInit ==
    /\ file = NoFile
    /\ tmp = NoFile
    /\ DATA_LOCK = ""
    /\ dbh = [t \in DbThreads |-> DbIdle]
    /\ ideal = EmptyDict
    /\ overlap = {}
    /\ loads = {}
    /\ dbops = 0

\* the steps of running database handlers
DbStep ==
    \/ \E t \in DbThreads : get_user_servers(t)
    \/ \E t \in DbThreads : AnswerNotFound(t)
    \/ \E t \in DbThreads : set_user_servers(t)
    \/ \E t \in DbThreads : DelDefault(t)
    \/ \E t \in DbThreads : set_user_default_server(t)
    \/ \E t \in DbThreads : SaveWrite(t)
    \/ \E t \in DbThreads : SaveReplace(t)

\* no database handler is running
DbQuiet == \A t \in DbThreads : dbh[t].pc = "idle"

\* from now on reading SERVER_DB raises inside load_server_db (open or
\* json.load: an I/O error, no descriptor left, a document that no longer
\* parses); what is stored in the file stays on disk as it is
ReadFails ==
    /\ file.exists
    /\ file.whole
    /\ file' = [file EXCEPT !.whole = FALSE]
    /\ UNCHANGED <<tmp, DATA_LOCK, dbh, ideal, overlap, loads, dbops>>
    /\ UNCHANGED <<sessVars, renderVars, fnVars, sendVars>>

\* ----------------------------------------------------- SSHSession.send
\* calls of send() in one run
MaxSends == 2

\* the last value of now_ts() in one run
MaxNow == 2

\* self.chan and self.stop after __init__; loop is "new" before start() is
\* called, "running" while the loop thread
\* is in its while loop, "failed" after start() returned False, "left" after
\* the loop thread left the while loop for the reason why, "exited" after it
\* called close(); close is how far a call of close() has got; timeout is
\* SESSION_TIMEOUT as the loop reads it, {} until the module has read it
NewSession ==
    [chan |-> "none", stop |-> FALSE, last_activity |-> 0,
     loop |-> "new", close |-> "no", why |-> "none", timeout |-> {}]

\* the values of SESSION_TIMEOUT: a negative one, 0 (disabled), a positive
Timeouts == {-1, 0, 1}

SendIdle == [pc |-> "idle", chan |-> "none", stop |-> FALSE]

SendInit ==
    /\ ssn = NewSession
    /\ now = 0
    /\ snd = SendIdle
    /\ wire = 0
    /\ sends = 0

\* frame of the actions on the session object
SendFrame == UNCHANGED <<sessVars, renderVars, dbVars, fnVars>>

\* time passes
Clock ==
    /\ now < MaxNow
    /\ now' = now + 1
    /\ UNCHANGED <<ssn, snd, wire, sends>>
    /\ SendFrame

\* SESSION_TIMEOUT = int(os.environ.get("SESSION_TIMEOUT", "0")), when the
\* module is loaded
ReadEnv(v) ==
    /\ ssn.timeout = {}
    /\ ssn' = [ssn EXCEPT !.timeout = {v}]
    /\ UNCHANGED <<now, snd, wire, sends>>
    /\ SendFrame

\* start(): connect or invoke_shell raises before self.chan is assigned;
\* send_message raises after it; or the loop thread is started
SsnStart(outcome) ==
    /\ ssn.timeout # {}
    /\ ssn.loop = "new"
    /\ ssn' = CASE outcome = "ok" ->
                     [ssn EXCEPT !.chan = "open", !.loop = "running"]
                [] outcome = "fail_msg" ->
                     [ssn EXCEPT !.chan = "open", !.loop = "failed"]
                [] OTHER -> [ssn EXCEPT !.loop = "failed"]
    /\ UNCHANGED <<now, snd, wire, sends>>
    /\ SendFrame

\* loop(): data was received, self.last_activity = now_ts()
SsnRecv ==
    /\ ssn.loop = "running" /\ ~ssn.stop /\ ssn.chan = "open"
    /\ ssn.last_activity # now
    /\ ssn' = [ssn EXCEPT !.last_activity = now]
    /\ UNCHANGED <<now, snd, wire, sends>>
    /\ SendFrame

\* why the loop leaves its while loop
ExitReasons == {"stop", "timeout", "eof", "error"}

\* the idle time is over the limit: now_ts() - self.last_activity >
\* SESSION_TIMEOUT
TimedOut == \E v \in ssn.timeout : now - ssn.last_activity > v

\* a loop that tests the idle time whatever SESSION_TIMEOUT is
SsnLoopExit_nozero(why) ==
    /\ ssn.loop = "running"
    /\ CASE why = "stop" -> ssn.stop
         [] why = "timeout" -> TimedOut
         [] why = "eof" -> ssn.chan = "open"
         [] OTHER -> why = "error"
    /\ ssn' = [ssn EXCEPT !.loop = "left", !.why = why]
    /\ UNCHANGED <<now, snd, wire, sends>>
    /\ SendFrame

\* loop() leaves the while loop: the stop flag is set when the while
\* condition is tested; the idle time is over a positive SESSION_TIMEOUT;
\* recv returned no data; or a statement of the iteration raised and
\* except Exception took it
SsnLoopExit(why) ==
    /\ ssn.loop = "running"
    /\ CASE why = "stop" -> ssn.stop
         [] why = "timeout" -> (\E v \in ssn.timeout : v > 0) /\ TimedOut
         [] why = "eof" -> ssn.chan = "open"
         [] OTHER -> why = "error"
    /\ ssn' = [ssn EXCEPT !.loop = "left", !.why = why]
    /\ UNCHANGED <<now, snd, wire, sends>>
    /\ SendFrame

\* after the while loop: try: self.close(), whose first statement is
\* self.stop.set()
SsnLoopClose ==
    /\ ssn.loop = "left"
    /\ ssn' = [ssn EXCEPT !.loop = "exited", !.stop = TRUE,
                          !.close = IF @ = "no" THEN "stopset" ELSE @]
    /\ UNCHANGED <<now, snd, wire, sends>>
    /\ SendFrame

\* stop_session from a handler, which runs when no other handler does:
\* close() begins with self.stop.set()
SsnStop ==
    /\ snd.pc = "idle"
    /\ ssn.loop \in {"running", "left"} /\ ssn.close = "no"
    /\ ssn' = [ssn EXCEPT !.stop = TRUE, !.close = "stopset"]
    /\ UNCHANGED <<now, snd, wire, sends>>
    /\ SendFrame

\* close(): self.chan.close() and self.client.close()
SsnCloseChan ==
    /\ ssn.close = "stopset"
    /\ ssn' = [ssn EXCEPT !.close = "done",
                          !.chan = IF @ = "open" THEN "closed" ELSE @]
    /\ UNCHANGED <<now, snd, wire, sends>>
    /\ SendFrame

\* a handler calls s.send(text)
SendCall ==
    /\ snd.pc = "idle"
    /\ sends < MaxSends
    /\ sends' = sends + 1
    /\ snd' = [SendIdle EXCEPT !.pc = "test"]
    /\ UNCHANGED <<ssn, now, wire>>
    /\ SendFrame

\* the test without the stop flag
SendTest_nostop ==
    /\ snd.pc = "test"
    /\ snd' = [pc |-> IF ssn.chan # "none" THEN "write" ELSE "ret",
               chan |-> ssn.chan, stop |-> ssn.stop]
    /\ UNCHANGED <<ssn, now, wire, sends>>
    /\ SendFrame

\* if self.chan and not self.stop.is_set(): a closed channel is still an
\* object, so it passes the first test
SendTest ==
    /\ snd.pc = "test"
    /\ snd' = [pc |-> IF ssn.chan # "none" /\ ~ssn.stop THEN "write" ELSE "ret",
               chan |-> ssn.chan, stop |-> ssn.stop]
    /\ UNCHANGED <<ssn, now, wire, sends>>
    /\ SendFrame

\* self.chan.send(text): the text is written, or the call raises (always
\* on a channel that was closed meanwhile); except Exception logs it and
\* send returns
SendWrite ==
    /\ snd.pc = "write"
    /\ \E written \in IF ssn.chan = "open" THEN BOOLEAN ELSE {FALSE} :
         /\ wire' = IF written THEN wire + 1 ELSE wire
         /\ snd' = [snd EXCEPT !.pc = IF written THEN "stamp" ELSE "ret"]
    /\ UNCHANGED <<ssn, now, sends>>
    /\ SendFrame

\* self.last_activity = now_ts()
SendStamp ==
    /\ snd.pc = "stamp"
    /\ ssn' = [ssn EXCEPT !.last_activity = now]
    /\ snd' = [snd EXCEPT !.pc = "ret"]
    /\ UNCHANGED <<now, wire, sends>>
    /\ SendFrame

\* send returns to its caller
SendReturn ==
    /\ snd.pc = "ret"
    /\ snd' = SendIdle
    /\ UNCHANGED <<ssn, now, wire, sends>>
    /\ SendFrame

NextSend ==
    \/ Clock
    \/ \E outcome \in StartOutcomes : SsnStart(outcome)
    \/ \E v \in Timeouts : ReadEnv(v)
    \/ SsnRecv
    \/ \E why \in ExitReasons : SsnLoopExit(why)
    \/ SsnLoopClose
    \/ SsnStop
    \/ SsnCloseChan
    \/ SendCall
    \/ SendTest
    \/ SendWrite
    \/ SendStamp
    \/ SendReturn

\* ------------------------------------- close() against render_and_update
\* the text close() publishes with its edit of the session's message
Marker == <<"Session closed">>

\* the loop thread of the started session is in its while loop
InLoop == ssn.loop = "running" /\ rpc = "loop"

\* loop() leaves the while loop: the stop flag is set when the while
\* condition is tested, or one of the breaks is taken
RLoopExit ==
    /\ InLoop
    /\ \E why \in ExitReasons :
         /\ why = "stop" => ssn.stop
         /\ ssn' = [ssn EXCEPT !.loop = "left", !.why = why]
    /\ rpc' = "left"
    /\ UNCHANGED <<screen, last_render, last_sent, message, safe, feeds,
                   edit_failed>>
    /\ UNCHANGED <<now, snd, wire, sends>>
    /\ UNCHANGED <<sessVars, dbVars, fnVars>>

\* the loop thread's self.close(), up to the edit: self.stop.set(), then
\* the channel and the client are closed
RLoopClose ==
    /\ rpc = "left"
    /\ ssn' = [ssn EXCEPT !.stop = TRUE, !.loop = "exited",
                          !.chan = IF @ = "open" THEN "closed" ELSE @]
    /\ rpc' = "mark"
    /\ UNCHANGED <<screen, last_render, last_sent, message, safe, feeds,
                   edit_failed>>
    /\ UNCHANGED <<now, snd, wire, sends>>
    /\ UNCHANGED <<sessVars, dbVars, fnVars>>

\* a close() that edits the message only when no close() ran before it
RLoopMark_once ==
    /\ rpc = "mark"
    /\ \E ok \in BOOLEAN :
         /\ message' = IF ok /\ ssn.close = "no" THEN Marker ELSE message
         /\ rpc' = IF ok THEN "done" ELSE "unmarked"
    /\ UNCHANGED <<screen, last_render, last_sent, safe, feeds, edit_failed>>
    /\ UNCHANGED <<sessVars, dbVars, fnVars, sendVars>>

\* the loop thread's self.close(), the edit: the message is edited to
\* "Session closed", or the edit raises and is logged; the thread ends
RLoopMark ==
    /\ rpc = "mark"
    /\ \E ok \in BOOLEAN :
         /\ message' = IF ok THEN Marker ELSE message
         /\ rpc' = IF ok THEN "done" ELSE "unmarked"
    /\ UNCHANGED <<screen, last_render, last_sent, safe, feeds, edit_failed>>
    /\ UNCHANGED <<sessVars, dbVars, fnVars, sendVars>>

\* close() called by stop_session, the edit after channel and client were
\* closed: the message is edited to "Session closed", or the edit raises
\* and is logged
SsnCloseMark ==
    /\ ssn.close = "done"
    /\ \E ok \in BOOLEAN :
         /\ message' = IF ok THEN Marker ELSE message
         /\ ssn' = [ssn EXCEPT !.close = IF ok THEN "marked" ELSE "unmarked"]
    /\ UNCHANGED <<screen, last_render, last_sent, rpc, safe, feeds,
                   edit_failed>>
    /\ UNCHANGED <<now, snd, wire, sends>>
    /\ UNCHANGED <<sessVars, dbVars, fnVars>>

\* one started session: its loop thread, receiving and publishing until it
\* leaves the loop and closes, and a handler that stops the session
NextClose ==
    \/ \E v \in Timeouts : ReadEnv(v)
    \/ SsnStart("ok")
    \/ \E display \in Displays : InLoop /\ ssn.chan = "open" /\ Feed(display)
    \/ InLoop /\ ~ssn.stop /\ Tick
    \/ RenderUnchanged
    \/ RenderAlreadySent
    \/ RenderEdit
    \/ EditOk
    \/ EditFail
    \/ RLoopExit
    \/ RLoopClose
    \/ RLoopMark
    \/ SsnStop
    \/ SsnCloseChan
    \/ SsnCloseMark

\* ------------------------------------------------- functions on their own
\* the longest text handed to a function called on its own
MaxTextLen == 7

\* the texts of at most n characters over the letter "a" and the line break
RECURSIVE TextsUpTo(_)
TextsUpTo(n) ==
    IF n = 0 THEN {<<>>}
    ELSE LET shorter == TextsUpTo(n - 1)
         IN  shorter \cup {Append(t, c) : t \in shorter, c \in {"a", "\n"}}

\* what render_and_update hands to clamp_tg: a text after rstrip()
ClampTexts == {t \in TextsUpTo(MaxTextLen) : RStrip(t) = t}

\* safe = clamp_tg(text)
ClampCall(text) ==
    /\ call' = [fn |-> "clamp_tg", arg |-> text, out |-> clamp_tg(text)]
    /\ UNCHANGED <<cfg, sessVars, renderVars, dbVars, sendVars>>

\* --------------------------------- build_sequence_from_mods_and_key
\* characters are their code points, a string is a sequence of them

\* the named keys and what they send
KEYS ==
       (<<84, 65, 66>> :> <<9>>)                              \* TAB
    @@ (<<69, 78, 84, 69, 82>> :> <<13>>)                     \* ENTER
    @@ (<<69, 83, 67>> :> <<27>>)                             \* ESC
    @@ (<<66, 83>> :> <<127>>)                                \* BS
    @@ (<<85, 80>> :> <<27, 91, 65>>)                         \* UP
    @@ (<<68, 79, 87, 78>> :> <<27, 91, 66>>)                 \* DOWN
    @@ (<<76, 69, 70, 84>> :> <<27, 91, 68>>)                 \* LEFT
    @@ (<<82, 73, 71, 72, 84>> :> <<27, 91, 67>>)             \* RIGHT
    @@ (<<80, 71, 85, 80>> :> <<27, 91, 53, 126>>)            \* PGUP
    @@ (<<80, 71, 68, 78>> :> <<27, 91, 54, 126>>)            \* PGDN
    @@ (<<78, 65, 78, 79, 95, 69, 88, 73, 84>> :> <<24>>)     \* NANO_EXIT

\* str.upper and str.lower on an ASCII character
Upper(c) == IF c \in 97..122 THEN c - 32 ELSE c

Lower(c) == IF c \in 65..90 THEN c + 32 ELSE c

UpperStr(t) == [i \in 1..Len(t) |-> Upper(t[i])]

\* the control character with the letter's offset taken from "@"
CtrlChar_64(c) == c - 64

\* ctrl_char = chr(ord(c) - 96) of a lower-case letter
CtrlChar(c) == c - 96

\* build_sequence_from_mods_and_key(mods, key_token); mods is read with
\* "in" only, so it is a set here
build_sequence_from_mods_and_key(mods, key_token) ==
    IF key_token = <<>> THEN <<>>
    ELSE IF UpperStr(key_token) \in DOMAIN KEYS
    THEN (IF "ALT" \in mods THEN <<27>> ELSE <<>>) \o KEYS[UpperStr(key_token)]
    ELSE LET ch0 == key_token[1]
             seq == IF "ALT" \in mods THEN <<27>> ELSE <<>>
         IN  IF "CTRL" \in mods
             THEN LET c == Lower(ch0)
                  IN  IF c \in 97..122 THEN Append(seq, CtrlChar(c))
                      ELSE Append(seq, ch0 % 32)
             ELSE IF "SHIFT" \in mods THEN Append(seq, Upper(ch0))
             ELSE Append(seq, ch0)

\* the ASCII letters
Letters == (65..90) \cup (97..122)

\* key tokens: every single letter, single characters around the letters in
\* the code table ("1", "@", "[", "`", "{"), names of KEYS in either case,
\* longer tokens that start with a letter, and the empty token
KeyTokens ==
    {<<c>> : c \in Letters \cup {49, 64, 91, 96, 123}}
        \cup {<<84, 65, 66>>, <<116, 97, 98>>, <<69, 115, 99>>, <<85, 112>>,
              <<97, 98>>, <<90, 122>>, <<>>}

Mods == SUBSET {"CTRL", "ALT", "SHIFT"}

BuildCall(mods, key_token) ==
    /\ call' = [fn |-> "build_sequence", arg |-> <<mods, key_token>>,
                out |-> build_sequence_from_mods_and_key(mods, key_token)]
    /\ UNCHANGED <<cfg, sessVars, renderVars, dbVars, sendVars>>

\* ------------------------------------ /ctrl, /alt, /shift and /keys
\* the modifier words of parse_combo_tokens and the modifier each stands for
ModWords ==
       (<<99, 116, 114, 108>> :> "CTRL")                   \* ctrl
    @@ (<<99, 111, 110, 116, 114, 111, 108>> :> "CTRL")    \* control
    @@ (<<97, 108, 116>> :> "ALT")                         \* alt
    @@ (<<109, 101, 116, 97>> :> "ALT")                    \* meta
    @@ (<<115, 104, 105, 102, 116>> :> "SHIFT")            \* shift

LowerStr(t) == [i \in 1..Len(t) |-> Lower(t[i])]

\* str.strip() on code points
WhitespaceCp == {9, 10, 11, 12, 13, 32}

RECURSIVE StripCp(_)
StripCp(t) ==
    IF t = <<>> THEN t
    ELSE IF t[1] \in WhitespaceCp THEN StripCp(Tail(t))
    ELSE IF t[Len(t)] \in WhitespaceCp THEN StripCp(SubSeq(t, 1, Len(t) - 1))
    ELSE t

\* re.split(r"[+]", t): the parts between the "+" signs, empty ones included
RECURSIVE SplitPlus(_)
SplitPlus(t) ==
    IF \A i \in 1..Len(t) : t[i] # 43 THEN <<t>>
    ELSE LET i == CHOOSE i \in 1..Len(t) :
                    t[i] = 43 /\ \A j \in 1..(i - 1) : t[j] # 43
         IN  <<SubSeq(t, 1, i - 1)>> \o SplitPlus(SubSeq(t, i + 1, Len(t)))

NonEmpty(t) == t # <<>>

\* the first loop of parse_combo_tokens: the stripped, lower-cased,
\* non-empty parts of every token, in order
RECURSIVE Merged(_)
Merged(tokens) ==
    IF tokens = <<>> THEN <<>>
    ELSE LET parts == SplitPlus(Head(tokens))
             clean == [i \in 1..Len(parts) |-> LowerStr(StripCp(parts[i]))]
         IN  SelectSeq(clean, NonEmpty) \o Merged(Tail(tokens))

IsKeyToken(tok) == tok \notin DOMAIN ModWords

\* parse_combo_tokens: the modifiers named (a set: the callers only test
\* membership) and the last token that is not a modifier word, "" if none
parse_combo_tokens(tokens) ==
    LET merged == Merged(tokens)
        keys == SelectSeq(merged, IsKeyToken)
    IN  <<{ModWords[merged[i]] : i \in {j \in 1..Len(merged) :
                                          merged[j] \in DOMAIN ModWords}},
          IF keys = <<>> THEN <<>> ELSE keys[Len(keys)]>>

\* a handler that sends whatever sequence it built
SendSeq_always(seq) == [reply |-> "sent", sent |-> {seq}]

\* if not seq: reply "Could not parse key" and return; else s.send(seq)
SendSeq(seq) ==
    IF seq = <<>> THEN [reply |-> "could_not_parse", sent |-> {}]
    ELSE [reply |-> "sent", sent |-> {seq}]

\* the word a command puts in front of its arguments: primary_mod.lower()
PrimaryWord(primary_mod) ==
    CHOOSE w \in DOMAIN ModWords :
        ModWords[w] = primary_mod /\ Len(w) = Len(primary_mod)

\* process_modifier_command(primary_mod, update, ctx) with ctx.args = tokens
\* and s = get_session(key) found or not: what it replies and what it hands
\* to s.send
process_modifier_command(primary_mod, tokens, found) ==
    IF ~found THEN [reply |-> "no_session", sent |-> {}]
    ELSE LET parsed == parse_combo_tokens(<<PrimaryWord(primary_mod)>> \o tokens)
         IN  SendSeq(build_sequence_from_mods_and_key(parsed[1], parsed[2]))

\* keys_cmd
keys_cmd(tokens, found) ==
    IF ~found THEN [reply |-> "no_session", sent |-> {}]
    ELSE IF tokens = <<>> THEN [reply |-> "usage", sent |-> {}]
    ELSE LET parsed == parse_combo_tokens(tokens)
         IN  SendSeq(build_sequence_from_mods_and_key(parsed[1], parsed[2]))

\* ctx.args of the commands: no argument, and the words of "c", "C",
\* "alt c", "ctrl+alt+c", "ctrl", "ctrl+", "+", "alt shift", "tab", "@",
\* "ctrl+@", "Shift+x", "meta [", "c ctrl", "control+Z", "+c+", "a+b"
KeyArgs ==
    {<<>>,
        <<<<99>>>>,
        <<<<67>>>>,
        <<<<97, 108, 116>>, <<99>>>>,
        <<<<99, 116, 114, 108, 43, 97, 108, 116, 43, 99>>>>,
        <<<<99, 116, 114, 108>>>>,
        <<<<99, 116, 114, 108, 43>>>>,
        <<<<43>>>>,
        <<<<97, 108, 116>>, <<115, 104, 105, 102, 116>>>>,
        <<<<116, 97, 98>>>>,
        <<<<64>>>>,
        <<<<99, 116, 114, 108, 43, 64>>>>,
        <<<<83, 104, 105, 102, 116, 43, 120>>>>,
        <<<<109, 101, 116, 97>>, <<91>>>>,
        <<<<99>>, <<99, 116, 114, 108>>>>,
        <<<<99, 111, 110, 116, 114, 111, 108, 43, 90>>>>,
        <<<<43, 99, 43>>>>,
        <<<<97, 43, 98>>>>}

ModCall(primary_mod, tokens, found) ==
    /\ call' = [fn |-> "process_modifier_command",
                arg |-> <<primary_mod, tokens, found>>,
                out |-> process_modifier_command(primary_mod, tokens, found)]
    /\ UNCHANGED <<cfg, sessVars, renderVars, dbVars, sendVars>>

KeysCall(tokens, found) ==
    /\ call' = [fn |-> "keys_cmd", arg |-> <<"", tokens, found>>,
                out |-> keys_cmd(tokens, found)]
    /\ UNCHANGED <<cfg, sessVars, renderVars, dbVars, sendVars>>

FnInit ==
    /\ call = [fn |-> "none"]
    /\ cfg = [PRIVATE_ONLY |-> FALSE, ALLOWED_USERS |-> {}, ALLOWED_CHATS |-> {}]

NextFn ==
    \/ \E text \in ClampTexts : ClampCall(text)
    \/ \E mods \in Mods, key_token \in KeyTokens : BuildCall(mods, key_token)
    \/ \E primary_mod \in {"CTRL", "ALT", "SHIFT"}, tokens \in KeyArgs, found \in BOOLEAN :
          ModCall(primary_mod, tokens, found)
    \/ \E tokens \in KeyArgs, found \in BOOLEAN : KeysCall(tokens, found)

\* ---------------------------------------------------------- authorization
\* what the three settings may have been read as: lists empty (open) or
\* naming one user, one chat
Configs ==
    [PRIVATE_ONLY : BOOLEAN, ALLOWED_USERS : {{}, {2}}, ALLOWED_CHATS : {{}, {1}}]

\* the handler returns at once: guard() replied with the refusal, or cb
\* answered the query with it
Deny(w, k) ==
    /\ h[w].pc = "idle"
    /\ updates < MaxUpdates
    /\ updates' = updates + 1
    /\ h' = [h EXCEPT ![w] = Done([Idle EXCEPT !.op = "denied", !.key = k,
                                               !.auth = FALSE], "denied")]
    /\ UNCHANGED <<SESSIONS, PENDING, WIZARD, sess, renderVars, dbVars, fnVars, sendVars>>

\* if not guard(update): return -- in front of a command or text handler,
\* whose first step is the action start
guard(w, k, start) ==
    IF is_authorized(k) THEN start ELSE Deny(w, k)

\* the checks at the head of cb, of a callback query of identity key k:
\* the PRIVATE_ONLY check sits in a try whose except clause passes, so when
\* q.answer raises there the return behind it is not reached and cb goes on
\* to the list checks; answered says that q.answer returned
cb_passes(k, answered) ==
    /\ (cfg.PRIVATE_ONLY /\ ChatType(k) # "private") => ~answered
    /\ cfg.ALLOWED_USERS # {} => k[2] \in cfg.ALLOWED_USERS
    /\ cfg.ALLOWED_CHATS # {} => k[1] \in cfg.ALLOWED_CHATS

\* cb up to the branch on the button's data: start is the first step of
\* that branch
cb(w, k, start) ==
    \E answered \in BOOLEAN :
        IF cb_passes(k, answered)
        THEN start
        ELSE Deny(w, k)

\* ------------------------------------------------------- specifications
SessInit ==
    /\ SESSIONS = EmptyDict
    /\ PENDING = EmptyDict
    /\ WIZARD = EmptyDict
    /\ sess = <<>>
    /\ h = [w \in Workers |-> Idle]
    /\ updates = 0

\* the steps of running handlers and of loop threads
Step ==
    \/ \E w \in Workers : WizGet(w)
    \/ \E w \in Workers : WizTarget(w)
    \/ \E w \in Workers : WizSetPending(w)
    \/ \E w \in Workers : AskPwGet(w)
    \/ \E w \in Workers : AskPwSet(w)
    \/ \E w \in Workers : WizPwDelete(w)
    \/ \E w \in Workers : WizPwGetPending(w)
    \/ \E w \in Workers : WizPwNoPending(w)
    \/ \E w \in Workers : StopPop(w)
    \/ \E w \in Workers : StopClose(w)
    \/ \E w \in Workers : Register(w)
    \/ \E w \in Workers : Start(w)
    \/ \E w \in Workers : WizPwClear(w)
    \/ \E w \in Workers : PassGet(w)
    \/ \E w \in Workers : PassDelete(w)
    \/ \E w \in Workers : PassPopPending(w)
    \/ \E w \in Workers : Finish(w)
    \/ \E w \in Workers : FwdGet(w)
    \/ \E w \in Workers : FwdSend(w)
    \/ \E w \in Workers : MStopClear(w)
    \/ \E w \in Workers : SshParse(w)
    \/ \E w \in Workers : Cancel(w)
    \/ \E w \in Workers : wizard_ask_target(w)
    \/ \E w \in Workers : Return(w)
    \/ \E i \in 1..Len(sess) : LoopBreak(i)
    \/ \E i \in 1..Len(sess) : LoopSeeStop(i)
    \/ \E i \in 1..Len(sess) : LoopClose(i)

\* msg.reply_to_message.message_id of a text, 0 for a text that replies to
\* nothing; the handler reads it in a chat that is not private
ReplyTo(k) == {0} \cup MsgIds

\* handlers run one at a time: main() registers plain callbacks on one
\* dispatcher, which calls them in turn
Serial == \A w \in Workers : h[w].pc = "idle"

Init == SessInit /\ RenderInit /\ DbInit /\ FnInit /\ SendInit

Next ==
    \/ \E k \in Keys, text \in Texts :
          \E rt \in ReplyTo(k) : Serial /\ text_msg("w1", k, text, rt)
    \/ \E k \in Keys, args \in Args \cup {<<>>} : Serial /\ pass_cmd("w1", k, args)
    \/ \E k \in Keys : Serial /\ stop_cmd("w1", k)
    \/ \E k \in Keys : Serial /\ cb_stop("w1", k)
    \/ \E k \in Keys, arg \in Args : Serial /\ ssh_cmd("w1", k, arg)
    \/ \E k \in Keys : Serial /\ cb_cancel("w1", k)
    \/ \E k \in Keys : Serial /\ cb_connect("w1", k)
    \/ Step

Spec == Init /\ [][Next]_vars

\* Spec with the access settings as the process may have read them
AuthInit ==
    /\ SessInit /\ RenderInit /\ DbInit /\ SendInit
    /\ call = [fn |-> "none"]
    /\ cfg \in Configs

NextAuth ==
    \/ \E k \in Keys, text \in Texts :
          \E rt \in ReplyTo(k) :
             Serial /\ guard("w1", k, text_msg("w1", k, text, rt))
    \/ \E k \in Keys, args \in Args \cup {<<>>} :
          Serial /\ guard("w1", k, pass_cmd("w1", k, args))
    \/ \E k \in Keys : Serial /\ guard("w1", k, stop_cmd("w1", k))
    \/ \E k \in Keys, arg \in Args : Serial /\ guard("w1", k, ssh_cmd("w1", k, arg))
    \/ \E k \in Keys : Serial /\ cb("w1", k, cb_stop("w1", k))
    \/ \E k \in Keys : Serial /\ cb("w1", k, cb_cancel("w1", k))
    \/ \E k \in Keys : Serial /\ cb("w1", k, cb_connect("w1", k))
    \/ Step

SpecAuth == AuthInit /\ [][NextAuth]_vars

\* a loop thread is a thread of its own and every call in its iteration
\* returns (recv on a channel with timeout 0, send and edit requests with
\* the client's timeouts, a sleep of 0.05 s): a loop that can see the stop
\* flag does, and a loop that left the while loop runs close()
LoopFair ==
    \A i \in 1..MaxFairUpdates :
        /\ WF_vars(IF i <= Len(sess) THEN LoopSeeStop(i) ELSE FALSE)
        /\ WF_vars(IF i <= Len(sess) THEN LoopClose(i) ELSE FALSE)

\* handlers one at a time, for runs of at most MaxFairUpdates updates
Short == Serial /\ updates < MaxFairUpdates

NextFair ==
    \/ \E k \in Keys, text \in Texts :
          \E rt \in ReplyTo(k) : Short /\ text_msg("w1", k, text, rt)
    \/ \E k \in Keys, args \in Args \cup {<<>>} : Short /\ pass_cmd("w1", k, args)
    \/ \E k \in Keys : Short /\ stop_cmd("w1", k)
    \/ \E k \in Keys : Short /\ cb_stop("w1", k)
    \/ \E k \in Keys, arg \in Args : Short /\ ssh_cmd("w1", k, arg)
    \/ \E k \in Keys : Short /\ cb_cancel("w1", k)
    \/ \E k \in Keys : Short /\ cb_connect("w1", k)
    \/ Step

SpecFair == Init /\ [][NextFair]_vars /\ LoopFair

\* fewer than MaxConcUpdates updates have been dispatched
Few == updates < MaxConcUpdates

\* the key of the updates that overlapping handlers take: one user in the
\* private chat
ConcKeys == {<<1, 1>>}

\* handlers on several threads at once, all for one key
NextConc ==
    \/ \E w \in Workers, k \in ConcKeys, text \in Texts :
          \E rt \in ReplyTo(k) : Few /\ text_msg(w, k, text, rt)
    \/ \E w \in Workers, k \in ConcKeys, args \in Args \cup {<<>>} : Few /\ pass_cmd(w, k, args)
    \/ \E w \in Workers, k \in ConcKeys : Few /\ stop_cmd(w, k)
    \/ \E w \in Workers, k \in ConcKeys : Few /\ cb_stop(w, k)
    \/ \E w \in Workers, k \in ConcKeys, arg \in Args : Few /\ ssh_cmd(w, k, arg)
    \/ \E w \in Workers, k \in ConcKeys : Few /\ cb_cancel(w, k)
    \/ \E w \in Workers, k \in ConcKeys : Few /\ cb_connect(w, k)
    \/ Step

SpecConc == Init /\ [][NextConc]_vars

\* one session's loop thread, rendering and publishing
SpecRender == Init /\ [][NextRender]_vars

\* the loop thread keeps running: every step of its iteration that can be
\* taken is taken, a call of edit_message_text returns, and an edit that is
\* attempted again and again succeeds at some point
RenderFair ==
    /\ WF_vars(Tick)
    /\ WF_vars(RenderUnchanged)
    /\ WF_vars(RenderAlreadySent)
    /\ WF_vars(RenderEdit)
    /\ WF_vars(EditOk \/ EditFail)
    /\ SF_vars(EditOk)

SpecRenderFair == SpecRender /\ RenderFair

\* database handlers one at a time, as main() dispatches them
NextDbSerial ==
    \/ \E k \in DbKeys, n \in Names, tgt \in DbTargets :
          DbQuiet /\ addserver_cmd("d1", k, n, tgt)
    \/ \E k \in DbKeys : DbQuiet /\ wizard_start_add_server("d1", k)
    \/ \E k \in DbKeys, text \in NameTexts \cup Texts, rt \in MsgIds :
          DbQuiet /\ text_msg_add("d1", k, text, rt)
    \/ WizAddName("d1")
    \/ WizAddTarget("d1")
    \/ WizAddClear("d1")
    \/ \E k \in DbKeys, n \in Names : DbQuiet /\ delserver_cmd("d1", k, n)
    \/ \E k \in DbKeys, n \in Names : DbQuiet /\ cb_delete("d1", k, n)
    \/ \E k \in DbKeys, n \in Names : DbQuiet /\ cb_default("d1", k, n)
    \/ \E k \in DbKeys : DbQuiet /\ servers_cmd("d1", k)
    \/ \E k \in DbKeys, n \in Names : DbQuiet /\ cb_sv_open("d1", k, n)
    \/ \E k \in DbKeys, n \in Names : DbQuiet /\ cb_sv_connect("d1", k, n)
    \/ ConnectPending("d1")
    \/ DbStep

SpecDbSerial == Init /\ [][NextDbSerial]_vars

\* SpecDbSerial with reads of the database that fail
NextDbFail ==
    \/ NextDbSerial
    \/ ReadFails

SpecDbFail == Init /\ [][NextDbFail]_vars

\* database handlers on several threads at once
NextDb ==
    \/ \E t \in DbThreads, k \in DbKeys, n \in Names, tgt \in DefaultPort :
          addserver_cmd(t, k, n, tgt)
    \/ \E t \in DbThreads, k \in DbKeys, n \in Names, tgt \in DefaultPort :
          wizard_add_target(t, k, n, tgt)
    \/ \E t \in DbThreads, k \in DbKeys, n \in Names : delserver_cmd(t, k, n)
    \/ \E t \in DbThreads, k \in DbKeys, n \in Names : cb_delete(t, k, n)
    \/ \E t \in DbThreads, k \in DbKeys, n \in Names : cb_default(t, k, n)
    \/ DbStep

SpecDb == Init /\ [][NextDb]_vars

\* the functions of the program, each called with every argument in turn
SpecFn == Init /\ [][NextFn]_vars

SpecSend == Init /\ [][NextSend]_vars

\* one session from start() to the end of its loop thread, with a stop
SpecClose == Init /\ [][NextClose]_vars

\* ------------------------------------------------------------- claims
\* the session registered for key k, 0 when there is none: get_session
get_session(k) == IF k \in DOMAIN SESSIONS THEN SESSIONS[k] ELSE 0

\* the loop thread of session i is alive and its stop flag is unset
Live(i) == sess[i].loop \in {"running", "closing"} /\ ~sess[i].stop

\* the program counters of the password step, after _try_delete
PwSteps == {"pw_getp", "pw_nop", "stop_pop", "stop_close", "reg", "start",
            "pw_clear", "fin"}

\* C1: in the AWAIT_PASSWORD step the deletion of the message that carries
\* the credential has been attempted before anything else is done with it:
\* before the PendingConn is looked up, before the connection attempt
\* starts, and in each of the three outcomes (no PendingConn, connection
\* failed, connected).
C1_DeleteBeforeConnect ==
    \A w \in Workers :
      /\ h[w].op = "text"
      /\ \/ h[w].pc \in PwSteps
         \/ h[w].reply \in {"no_pending", "connect_failed", "connected"}
      => h[w].del

\* C1 witness: a password message whose connection attempt failed
C1_Witness ==
    \E w \in Workers :
      h[w].op = "text" /\ h[w].tried /\ h[w].reply = "connect_failed" /\ h[w].del

\* C2: at most one session of a key has its loop thread alive with the stop
\* flag unset; such a session is the one registered under its key, or is the one a handler has just popped
\* and is closing; and when a handler has registered a new session and is
\* about to start it, no other session of that key is still live.
C2_OneLiveSession ==
    /\ \A i, j \in 1..Len(sess) :
         (Live(i) /\ Live(j) /\ sess[i].key = sess[j].key) => i = j
    /\ \A i \in 1..Len(sess) :
         Live(i) =>
           \/ get_session(sess[i].key) = i
           \/ \E w \in Workers : h[w].pc = "stop_close" /\ h[w].old = i
    /\ \A w \in Workers :
         h[w].pc = "start" =>
           \A i \in 1..Len(sess) :
             (i # h[w].s /\ sess[i].key = h[w].key) => ~Live(i)

\* C2 witness: a second session runs under a key whose first session ran
\* and was closed
C2_Witness ==
    \E i, j \in 1..Len(sess) :
      /\ i # j
      /\ sess[i].key = sess[j].key
      /\ sess[i].loop # "none" /\ sess[i].stop
      /\ Live(j) /\ get_session(sess[j].key) = j

\* C3: a session whose loop ended on its own (end of stream, idle timeout,
\* exception) and has run close() is no longer what get_session returns.
C3_ClosedUnregistered ==
    \A i \in 1..Len(sess) :
      (sess[i].loop = "done" /\ sess[i].why = "break")
        => get_session(sess[i].key) # i

\* C4: when an edit failed and the screen has not changed since, the next
\* interval tick attempts the publish again: render_and_update goes on to
\* bot.edit_message_text instead of returning early.
C4_FailedEditRetried ==
    [][(edit_failed /\ rpc = "render") => rpc' = "edit"]_vars

\* every default reference of a document is empty or names a profile of
\* the same owner
DefaultResolves(users) ==
    \A u \in DOMAIN users :
        users[u].default = "" \/ users[u].default \in DOMAIN users[u].servers

\* C5: in every persisted state of the database reached through add, delete
\* and set-default, each owner's default reference is empty or names one of
\* the owner's profiles.
C5_DefaultNeverDangling == DefaultResolves(file.users)

C8_ReaderSeesWholeDocument == file.whole /\ "partial" \notin loads

\* a load read the complete database beside the partly written temporary
\* file of a failed save, and a handler waits to load while another is
\* between the write and the replace of its save
C8_Witness ==
    /\ "whole_beside_tmp" \in loads
    /\ \E t, r \in DbThreads :
         /\ dbh[t].pc = "replace"
         /\ dbh[r].pc \in {"get_servers", "set_load", "del_default",
                           "setdef_load"}

\* the suffix of text t that starts at position k
Suffix(t, k) == SubSeq(t, k, Len(t))

\* the trailing runs of whole lines of t: the suffixes that start where a
\* line starts, and the empty run
TrailingRuns(t) ==
    {<<>>} \cup {Suffix(t, k) : k \in {i \in 1..Len(t) : i = 1 \/ t[i - 1] = "\n"}}

\* C11: for every screen text, clamp_tg returns a trailing run of whole
\* lines of at most MAX_TG_CHARS characters, no other such run is longer,
\* and a text within the budget is returned as it is.
C11_ClampKeepsLongestTail ==
    call.fn = "clamp_tg" =>
        /\ call.out \in TrailingRuns(call.arg)
        /\ Len(call.out) <= MAX_TG_CHARS
        /\ \A r \in TrailingRuns(call.arg) :
             Len(r) <= MAX_TG_CHARS => Len(r) <= Len(call.out)
        /\ Len(call.arg) <= MAX_TG_CHARS => call.out = call.arg

\* C11 witness: a text over the budget of which clamp_tg keeps the last
\* lines, an empty line among them, and drops the first
C11_Witness ==
    /\ call.fn = "clamp_tg"
    /\ Len(call.arg) > MAX_TG_CHARS
    /\ call.out # <<>>
    /\ call.out[1] = "\n"

C13_BadTargetKeepsStep ==
    [][\A w \in Workers :
         LET r == h[w]
             k == r.key
         IN  /\ (r.op = "text" /\ r.pc = "tgt" /\ parse_target(r.text) = {}) =>
                  /\ k \in DOMAIN WIZARD /\ WIZARD[k].step = "AWAIT_TARGET"
                  /\ WIZARD' = WIZARD
                  /\ PENDING' = PENDING
                  /\ h'[w].pc \in {"tgt", "done"}
                  /\ h'[w].pc = "done" =>
                       /\ h'[w].reply = "format_error"
                       /\ ~h'[w].del
                       /\ h'[w].fwd = 0
             /\ (r.op = "text" /\ r.pc = "done" /\ r.reply = "format_error") =>
                  /\ k \in DOMAIN WIZARD /\ WIZARD[k].step = "AWAIT_TARGET"
                  /\ WIZARD' = WIZARD
                  /\ PENDING' = PENDING]_vars

\* C13 witness: a text that did not parse has been answered; the key has no
\* PendingConn and its dialogue still awaits the target
C13_Witness ==
    \E w \in Workers :
      LET k == h[w].key
      IN  /\ h[w].op = "text" /\ h[w].pc = "done"
          /\ h[w].reply = "format_error" /\ ~h[w].del
          /\ k \notin DOMAIN PENDING
          /\ k \in DOMAIN WIZARD /\ WIZARD[k].step = "AWAIT_TARGET"

\* C14: the W:CANCEL button removes the WIZARD and the PENDING entry of
\* the pressing key and changes nothing else: the SESSIONS entry of that key
\* and the session behind it, the entries of every other key, and the
\* profile file stay as they were.
C14_CancelClearsOnlyDialogue ==
    [][\A w \in Workers :
         LET k == h[w].key
         IN  (h[w].op = "cancel" /\ h[w].pc = "cancel" /\ h'[w].pc = "done") =>
               /\ k \notin DOMAIN WIZARD'
               /\ k \notin DOMAIN PENDING'
               /\ \A j \in Keys \ {k} :
                    /\ j \in DOMAIN WIZARD' <=> j \in DOMAIN WIZARD
                    /\ j \in DOMAIN WIZARD => WIZARD'[j] = WIZARD[j]
                    /\ j \in DOMAIN PENDING' <=> j \in DOMAIN PENDING
                    /\ j \in DOMAIN PENDING => PENDING'[j] = PENDING[j]
               /\ SESSIONS' = SESSIONS
               /\ sess' = sess
               /\ file' = file /\ tmp' = tmp]_vars

\* C14 witness: the button was pressed by a key with a registered session
\* while the other key had a dialogue and a PendingConn of its own
C14_Witness ==
    \E w \in Workers :
      LET k == h[w].key
      IN  /\ h[w].op = "cancel" /\ h[w].pc = "done"
          /\ k \notin DOMAIN WIZARD /\ k \notin DOMAIN PENDING
          /\ k \in DOMAIN SESSIONS
          /\ \E j \in Keys \ {k} : j \in DOMAIN WIZARD /\ j \in DOMAIN PENDING

\* the pcs of a text handler whose text the dialogue consumed
Consumed == {"tgt", "pw_delete"}

\* C15: with a dialogue open for the key, a text in a chat that is not
\* private which does not reply to the dialogue's prompt is not consumed (the
\* handler goes on to the session path) and WIZARD and PENDING stay as they
\* were until it returns; in a private chat the text is consumed whatever it
\* replies to, also nothing.
C15_ReplyRuleInGroupsOnly ==
    [][\A w \in Workers :
         LET r == h[w]
             k == r.key
         IN  /\ (/\ r.op = "text" /\ r.pc = "wiz_get" /\ h'[w] # r
                 /\ k \in DOMAIN WIZARD
                 /\ ChatType(k) # "private"
                 /\ r.reply_to # WIZARD[k].prompt_msg_id) =>
                  /\ h'[w].pc = "fwd_get"
                  /\ WIZARD' = WIZARD /\ PENDING' = PENDING
             /\ (r.op = "text" /\ r.pc \in {"fwd_get", "fwd_send"}) =>
                  WIZARD' = WIZARD /\ PENDING' = PENDING
             /\ (/\ r.op = "text" /\ r.pc = "wiz_get" /\ h'[w] # r
                 /\ k \in DOMAIN WIZARD
                 /\ ChatType(k) = "private") =>
                  h'[w].pc \in Consumed]_vars

\* C15 witness: in the group chat a text has passed an open dialogue
\* unconsumed, which only a text not replying to the prompt does
C15_Witness ==
    \E w \in Workers :
      LET k == h[w].key
      IN  /\ h[w].op = "text" /\ h[w].pc = "fwd_get"
          /\ ChatType(k) # "private"
          /\ k \in DOMAIN WIZARD /\ k \in DOMAIN PENDING

\* the pcs of text_msg outside wizard_process_text's branches
SessionPath == {"wiz_get", "fwd_get", "fwd_send", "done"}

\* what a text handler that went through the password step replies
PwReplies == {"no_pending", "connected", "connect_failed"}

Sess(i) == IF i <= Len(sess) THEN sess[i] ELSE SSHSession(<<0, 0>>)

\* C18: once the stop flag of a session with a running loop is set, the
\* loop thread comes to its end and the session's channel and client are
\* closed: no session stays stopped with a running loop.
C18_StoppedLoopEnds ==
    \A i \in 1..MaxFairUpdates :
        (Sess(i).stop /\ Sess(i).loop = "running")
            ~> (Sess(i).loop = "done" /\ Sess(i).conn = "closed")

\* C18 witness: a loop that ended because it saw the stop flag that
\* stop_session had set
C18_Witness ==
    \E i \in 1..Len(sess) :
        /\ sess[i].stop /\ sess[i].loop = "done" /\ sess[i].why = "stop"
        /\ sess[i].conn = "closed"

\* the default profile of an identity key: what a handler of an update
\* with that key reads, get_user_default_server(user_id)
DefaultIn(k) == get_user_default_server(k[2])

C20_CtrlLetter ==
    (/\ call.fn = "build_sequence"
     /\ "CTRL" \in call.arg[1]
     /\ Len(call.arg[2]) = 1
     /\ call.arg[2][1] \in Letters) =>
        LET c == call.arg[2][1]
            ctrl == IF c >= 97 THEN c - 96 ELSE c - 64
        IN  call.out = IF "ALT" \in call.arg[1] THEN <<27, ctrl>> ELSE <<ctrl>>

\* C20 witness: CTRL and ALT with the upper-case letter Z
C20_Witness ==
    /\ call.fn = "build_sequence"
    /\ call.arg = <<{"CTRL", "ALT"}, <<90>>>>
    /\ call.out = <<27, 26>>

\* no part of any token, between "+" signs, is anything but a modifier word
NoKeyLeft(tokens) ==
    \A i \in 1..Len(tokens) :
        LET parts == SplitPlus(tokens[i])
        IN  \A n \in 1..Len(parts) :
                LowerStr(StripCp(parts[n])) \in DOMAIN ModWords \cup {<<>>}

\* C21: with a session registered, /ctrl, /alt, /shift and /keys whose
\* arguments leave no key token answer with a failure (could not parse, or
\* the usage line of a bare /keys) and hand nothing to send; with a key
\* token they hand send exactly one sequence; send never gets the empty
\* string.
C21_NoEmptySend ==
    call.fn \in {"process_modifier_command", "keys_cmd"} =>
        /\ <<>> \notin call.out.sent
        /\ ~call.arg[3] => call.out.sent = {}
        /\ call.arg[3] =>
             IF NoKeyLeft(call.arg[2])
             THEN /\ call.out.sent = {}
                  /\ call.out.reply \in {"could_not_parse", "usage"}
             ELSE /\ Cardinality(call.out.sent) = 1
                  /\ call.out.reply = "sent"

\* C21 witness: /ctrl alt shift with a session registered is answered with
\* the parse failure
C21_Witness ==
    /\ call.fn = "process_modifier_command"
    /\ call.arg = <<"CTRL", <<<<97, 108, 116>>, <<115, 104, 105, 102, 116>>>>, TRUE>>
    /\ call.out = [reply |-> "could_not_parse", sent |-> {}]

\* C22: the message that start() published as "Connecting..." for a session
\* whose loop is running eventually stops reading so: when the terminal
\* screen comes to show something and keeps showing something, the message
\* is edited to a snapshot of it.
C22_ConnectingReplaced ==
    <>[](ScreenText(screen) # <<>>) => <>(message # Connecting)

\* the profiles of owner u in a document
Servers(users, u) == UserRec(users, u).servers

\* C23: when a save of a profile (by /addserver or by the ADD dialogue) is
\* committed, the owner has that name once, with the connection fields
\* given, and every other profile as before; committing the same name with
\* the same fields again leaves the owner's profiles exactly as they were
\* after the first save.
C23_SaveTwiceSameProfile ==
    [][\A t \in DbThreads :
         (dbh[t].pc = "replace" /\ dbh[t].mut = "add" /\ dbh'[t].pc # "replace") =>
           LET n == dbh[t].name
               before == Servers(file.users, dbh[t].user)
               after == Servers(file'.users, dbh[t].user)
           IN  /\ DOMAIN after = DOMAIN before \cup {n}
               /\ after[n] = dbh[t].target
               /\ \A m \in DOMAIN before \ {n} : after[m] = before[m]
               /\ (n \in DOMAIN before /\ before[n] = dbh[t].target) =>
                    after = before]_vars

\* C23 witness: the second save of a name with the same fields is about to
\* be committed beside another profile of the owner; the document written
\* is the one on disk
C23_Witness ==
    \E t \in DbThreads :
      LET on_disk == Servers(file.users, dbh[t].user)
      IN  /\ dbh[t].pc = "replace" /\ dbh[t].mut = "add"
          /\ dbh[t].name \in DOMAIN on_disk
          /\ on_disk[dbh[t].name] = dbh[t].target
          /\ DOMAIN on_disk # {dbh[t].name}
          /\ tmp = file

\* the fields of a stored profile: a profile of the id-keyed format carries
\* its name as a field, a profile stored under its name does not
IdKeyed(users, u) ==
    \A key \in DOMAIN Servers(users, u) : "name" \in DOMAIN Servers(users, u)[key]

\* a listing of the owner's profiles returns on thread t
Listed(t) ==
    dbh[t].pc = "get_servers" /\ dbh[t].op = "list" /\ dbh'[t].pc = "idle"

\* C24: a listing of an owner's profiles leaves the owner's record in the
\* id-keyed format: every profile is stored under an id and carries its name
\* as a field, and the default refers to a key of the record
C24_ListingMigrates ==
    [][\A t \in DbThreads :
         Listed(t) =>
           /\ IdKeyed(file'.users, dbh[t].user)
           /\ UserRec(file'.users, dbh[t].user).default \in
                 DOMAIN Servers(file'.users, dbh[t].user) \cup {""}]_vars

\* thread t is about to look up a name that the owner's stored profiles do
\* not hold, for an open, a connect, a delete or a set-default
Absent(t) ==
    /\ dbh[t].pc = "get_servers"
    /\ dbh[t].op \in NamedOps
    /\ dbh[t].name \notin DOMAIN Servers(load_server_db, dbh[t].user)

\* C25: an open, connect, delete or set-default request naming a profile
\* that the owner's stored profiles do not hold is answered "not found" and
\* then returns; neither step changes servers.json, its temporary file,
\* PENDING, WIZARD or SESSIONS
C25_AbsentProfileNotFound ==
    [][\A t \in DbThreads :
         /\ Absent(t) =>
               /\ dbh'[t].pc = "not_found"
               /\ UNCHANGED <<file, tmp, PENDING, WIZARD, SESSIONS>>
         /\ dbh[t].pc = "not_found" =>
               /\ dbh'[t].pc = "idle"
               /\ UNCHANGED <<file, tmp, PENDING, WIZARD, SESSIONS>>]_vars

\* a connect is being answered "not found" while the owner has a profile
\* of another name and a password dialogue from an earlier connect is open
C25_Witness ==
    \E t \in DbThreads :
        /\ dbh[t].pc = "not_found"
        /\ dbh[t].op = "connect"
        /\ Servers(file.users, dbh[t].user) # EmptyDict
        /\ <<dbh[t].chat, dbh[t].user>> \in DOMAIN PENDING

\* the identity key of the update handled on database thread t
DbKey(t) == <<dbh[t].chat, dbh[t].user>>

\* C26: in the step ADD_SERVER_NAME a text that is no valid name leaves the
\* dialogue as it is, in that step with no name recorded, and a valid name
\* moves it to ADD_SERVER_TARGET with the name recorded; in the step
\* ADD_SERVER_TARGET a text that is no target leaves the dialogue and
\* servers.json unchanged, and a target is stored under the recorded name:
\* the write that commits it puts the profile in the owner's record, and
\* the handler returns only after it cleared the dialogue
C26_AddDialogueSteps ==
    [][\A t \in DbThreads :
         /\ dbh[t].pc = "add_name" =>
               IF validate_server_name(dbh[t].text) # ""
               THEN /\ WIZARD' = WIZARD
                    /\ WIZARD'[DbKey(t)].step = "ADD_SERVER_NAME"
                    /\ "name" \notin DOMAIN WIZARD'[DbKey(t)].data
                    /\ UNCHANGED <<file, tmp>>
               ELSE /\ WIZARD'[DbKey(t)].step = "ADD_SERVER_TARGET"
                    /\ WIZARD'[DbKey(t)].data["name"] = Strip(dbh[t].text)
         /\ dbh[t].pc = "add_target" =>
               IF parse_target(dbh[t].text) = {}
               THEN /\ dbh'[t].pc = "idle"
                    /\ UNCHANGED <<WIZARD, file, tmp>>
               ELSE /\ dbh'[t].pc = "get_servers"
                    /\ dbh'[t].name = Str(WIZARD[DbKey(t)].data["name"])
                    /\ dbh'[t].target = Target(dbh[t].text)
         /\ (dbh[t].op = "wadd" /\ dbh[t].pc = "replace") =>
               /\ dbh[t].name \in DOMAIN Servers(file'.users, dbh[t].user)
               /\ Servers(file'.users, dbh[t].user)[dbh[t].name] = dbh[t].target
         /\ ( /\ dbh[t].op = "wadd"
              /\ dbh[t].pc \notin {"add_name", "add_target"}
              /\ dbh'[t].pc = "idle" ) =>
               /\ dbh[t].pc = "clear_wizard"
               /\ DbKey(t) \notin DOMAIN WIZARD']_vars

\* the dialogue collected a padded name and a target with a port, the
\* profile is in servers.json under the stripped name, and the handler is
\* about to clear the dialogue
C26_Witness ==
    \E t \in DbThreads :
        /\ dbh[t].pc = "clear_wizard"
        /\ dbh[t].name = "b"
        /\ dbh[t].target.port = 2
        /\ "b" \in DOMAIN Servers(file.users, dbh[t].user)
        /\ Servers(file.users, dbh[t].user)["b"] = dbh[t].target
        /\ WIZARD[DbKey(t)].step = "ADD_SERVER_TARGET"

\* C27: render_and_update goes on to the edit only when the text of the
\* screen differs from last_render and its clamped form differs from
\* last_sent, and the edit carries that clamped form; last_sent changes
\* only when an edit succeeded, to the text then published; so last_sent is
\* the text of the last successful edit (empty while the message still
\* shows what start() sent), and an edit in flight never carries last_sent
C27_EditsOnlyNewText ==
    /\ [](IF message = Connecting THEN last_sent = <<>> ELSE last_sent = message)
    /\ [](rpc = "edit" => safe # last_sent)
    /\ [][(rpc # "edit" /\ rpc' = "edit") =>
            /\ ScreenText(screen) # last_render
            /\ clamp_tg(ScreenText(screen)) # last_sent
            /\ safe' = clamp_tg(ScreenText(screen))]_vars
    /\ [][last_sent' # last_sent =>
            /\ rpc = "edit"
            /\ last_sent' = safe
            /\ message' = safe]_vars

\* an edit was published, the screen changed, and the edit of the new text
\* failed: last_sent is still the published text
C27_Witness ==
    /\ edit_failed
    /\ rpc = "loop"
    /\ message # Connecting
    /\ last_sent = message
    /\ last_render = ScreenText(screen)
    /\ clamp_tg(ScreenText(screen)) # last_sent

\* C28: the loop thread leaves its while loop only for one of four reasons:
\* the stop flag is set, recv returned no data on the open channel, the
\* idle time is over a SESSION_TIMEOUT that is positive, or a statement of
\* the iteration raised; when SESSION_TIMEOUT is 0 no exit is a timeout;
\* the step of the loop thread after leaving is its call of close(), which
\* sets the stop flag, and the thread ends there
C28_LoopExits ==
    /\ [][(ssn.loop = "running" /\ ssn'.loop # "running") =>
            /\ ssn'.loop = "left"
            /\ \/ ssn'.why = "stop" /\ ssn.stop
               \/ ssn'.why = "eof" /\ ssn.chan = "open"
               \/ /\ ssn'.why = "timeout"
                  /\ \E v \in ssn.timeout :
                       v > 0 /\ now - ssn.last_activity > v
               \/ ssn'.why = "error"]_vars
    /\ [](ssn.timeout = {0} => ssn.why # "timeout")
    /\ [][(ssn.loop = "left" /\ ssn'.loop # "left") =>
            /\ ssn'.loop = "exited"
            /\ ssn'.stop
            /\ ssn'.close # "no"]_vars
    /\ [][ssn.loop = "exited" => ssn'.loop = "exited"]_vars

\* the session was idle for longer than a positive SESSION_TIMEOUT, the
\* loop left for that reason with the stop flag unset and called close()
C28_Witness ==
    /\ ssn.loop = "exited"
    /\ ssn.why = "timeout"
    /\ ssn.timeout = {1}
    /\ now - ssn.last_activity > 1
    /\ ssn.close = "done"
    /\ ssn.chan = "closed"

\* handler w is replacing a session: it connects for a key that had a
\* session registered, which it took out, and the teardown of that session
\* is about to run or has just run
Replacing(w) ==
    /\ h[w].op \in {"text", "pass"}
    /\ h[w].pc \in {"stop_close", "reg"}
    /\ h[w].old # 0

\* C29: while a session is being replaced its key has a registered session
\* at every moment, and from the moment the teardown of the old session can
\* run that session is the new one, so input for the key reaches it
C29_ReplaceKeepsRegistered ==
    \A w \in Workers :
        Replacing(w) =>
          /\ h[w].key \in DOMAIN SESSIONS
          /\ SESSIONS[h[w].key] # h[w].old

\* start() returns to handler w for a session whose stop flag was set while
\* it was connecting
StartReturnsStopped(w) ==
    /\ h[w].pc = "start"
    /\ sess[h[w].s].stop
    /\ h'[w].pc # "start"

StartFailed(w) ==
    /\ h[w].tried
    /\ ~h[w].ok
    /\ h[w].pc \in {"pw_clear", "pass_popp", "fin", "done"}

\* C32: when start() has failed, at whichever call, the session has no loop
\* thread and no open transport (a client that had connected is closed),
\* and the handler reports the failure
C32_FailedStartReleases ==
    \A w \in Workers :
        StartFailed(w) =>
          /\ sess[h[w].s].loop = "none"
          /\ sess[h[w].s].conn # "open"
          /\ h[w].pc = "done" => h[w].reply = "connect_failed"

\* C33: whenever the dialogue of a key is in step AWAIT_PASSWORD, a
\* PendingConnection exists for that key
C33_PasswordStepHasPending ==
    \A k \in DOMAIN WIZARD :
        WIZARD[k].step = "AWAIT_PASSWORD" => k \in DOMAIN PENDING

\* C34: a handler of an update that is_authorized rejects leaves SESSIONS,
\* PENDING, WIZARD and every session as they are and sends no bytes to a
\* session, at each of its steps
C34_RejectedChangesNothing ==
    [][\A w \in Workers :
          (h'[w] # h[w] /\ (~h[w].auth \/ ~h'[w].auth)) =>
             /\ UNCHANGED <<SESSIONS, PENDING, WIZARD, sess>>
             /\ h'[w].fwd = 0]_vars

\* the record of profile n of owner u stored in document d
Stored(d, u, n) ==
    /\ u \in DOMAIN d.users
    /\ n \in DOMAIN d.users[u].servers

\* handler t is replacing the database by a document that removes profile
\* n of owner u on purpose
Removes(t, u, n) ==
    /\ dbh[t].mut = "remove"
    /\ dbh[t].user = u
    /\ dbh[t].name = n

\* C35: a write that failed leaves SERVER_DB as it was, and a write that
\* went through, whatever the reads before it returned, keeps every stored
\* profile of every owner except the one the handler set out to delete
C35_FailuresKeepStoredData ==
    [][\A t \in DbThreads :
         /\ (dbh[t].pc = "save" /\ dbh'[t].pc \notin {"save", "replace"}) =>
               file' = file
         /\ (dbh[t].pc = "replace" /\ dbh'[t].pc # "replace") =>
               \A u \in Owners, n \in Names :
                  (Stored(file, u, n) /\ ~Removes(t, u, n)) =>
                      Stored(file', u, n)]_vars

\* C36: every step of a /ssh handler whose argument does not parse leaves
\* SESSIONS, PENDING, WIZARD and every session as they are, and the handler
\* reports the usage error
C36_BadTargetChangesNothing ==
    [][\A w \in Workers :
          (h[w].op = "ssh" /\ parse_target(h[w].text) = {} /\ h'[w] # h[w]) =>
             /\ UNCHANGED <<SESSIONS, PENDING, WIZARD, sess>>
             /\ h'[w].pc = "done" => h'[w].reply = "usage"]_vars

\* C9: once the connection attempt has returned and the handler has gone
\* past its clean-up step, PENDING has no entry for the key, whether the
\* attempt succeeded or failed.
C9_PendingConsumed ==
    \A w \in Workers :
      (h[w].tried /\ h[w].pc \in {"fin", "done"}) => h[w].key \notin DOMAIN PENDING

\* C9 witness: /pass whose connection attempt failed
C9_Witness ==
    \E w \in Workers :
      h[w].op = "pass" /\ h[w].tried /\ ~h[w].ok /\ h[w].pc = "done"

\* C10: after a failed connection attempt the key has no dialogue in
\* WIZARD and no session in SESSIONS.
C10_FailureClearsAll ==
    \A w \in Workers :
      (h[w].tried /\ ~h[w].ok /\ h[w].pc = "done") =>
        /\ h[w].key \notin DOMAIN WIZARD
        /\ h[w].key \notin DOMAIN SESSIONS

=============================================================================
